---- MODULE Spec2Model ----
(***************************************************************************)
(* ChatList: the multi-provider fan-out request dispatcher of network.py.  *)
(*                                                                         *)
(* Two specifications share the translated functions of network.py:        *)
(*   Spec      one call of send_prompt_to_models_async: the submit loop,   *)
(*             the ThreadPoolExecutor's workers, the HTTP calls in flight  *)
(*             and the as_completed loop;                                  *)
(*   SpecCall  one call of send_to_model / send_prompt_to_model for every  *)
(*             model config, environment and HTTP result of the bounded    *)
(*             input sets.                                                 *)
(*                                                                         *)
(* Python values are tagged tuples: <<"None">>, <<"str", s>>,              *)
(* <<"int", digits>>, <<"list", v1, ..>>, <<"dict", <<k1, v1>>, ..>>.      *)
(* Strings the code inspects (lower(), substring tests, environment        *)
(* lookups) are sequences of one-character strings.  User-visible message  *)
(* texts are given in English, each beside the source line that holds it.  *)
(***************************************************************************)
EXTENDS Integers, Sequences, FiniteSets, TLC

VARIABLES
    \* ---- one dispatch: send_prompt_to_models_async ----
    models_list,   \* the input list of model configs
    env,           \* os.environ, as far as the configs name it
    server,        \* server[i]: what the HTTP POST of task i ends with
    main_pc,       \* "submitting" | "collecting" | "returned" | "raised"
    submitted,     \* number of executor.submit calls made so far
    queue,         \* the executor's work queue (task indexes, FIFO)
    task_pc,       \* task_pc[i]: "new" | "queued" | "inflight" | "done"
    task_client,   \* task_client[i]: the client task i built (or NoClient)
    posts,         \* posts[i]: HTTP POSTs task i has issued
    futures,       \* futures[i]: the future's state, result or exception
    collected,     \* task indexes as_completed has already yielded
    results,       \* the list the call builds and returns
    \* ---- one per-model call: send_to_model ----
    call_cfg,      \* the model config of the call
    call_env,      \* os.environ during the call
    call_pc,       \* "idle" | "start" | "inflight" | "returned" | "raised"
    call_client,   \* the client create_client returned (or NoClient)
    call_http,     \* the HTTP result the POST ended with (or NoHttp)
    call_posts,    \* HTTP POSTs issued by the call
    call_req,      \* the request of the POST (or NoRequest)
    call_out,      \* the outcome send_to_model returned
    \* ---- per-model calls while os.environ changes ----
    environ,       \* os.environ
    changes,       \* number of changes made to os.environ so far
    t_cfg,         \* t_cfg[c]: the model config of call c
    t_pc,          \* t_pc[c]: "new" | "resolved" | "noclient" | "sent"
    t_client,      \* t_client[c]: the client call c built (or NoClient)
    t_getenv,      \* t_getenv[c]: what os.getenv gave call c for its credential
    t_req,         \* t_req[c]: the request call c posted (or NoRequest)
    \* ---- two runs of one per-model call, for comparing what they log ----
    l_cfg,         \* the model config of both runs
    l_env,         \* l_env[r]: os.environ of run r
    l_pc,          \* "idle" | "start" | "inflight" | "done"
    l_client,      \* l_client[r]: the client run r built (or NoClient)
    l_http,        \* the HTTP result the runs that post receive (or NoHttp)
    l_log,         \* l_log[r]: the log lines run r has emitted
    l_out,         \* l_out[r]: what send_to_model left in run r
    \* ---- one call of improve_prompt ----
    i_prompt,      \* original_prompt
    i_cfg,         \* model_data
    i_env,         \* os.environ during the call
    i_pc,          \* "idle" | "start" | "inflight" | "done"
    i_resolved,    \* whether create_client has been called
    i_client,      \* the client create_client returned (or NoClient)
    i_posts,       \* HTTP POSTs issued by the call
    i_sent,        \* the improvement prompt sent (or NoPrompt)
    i_http,        \* the HTTP result the POST ended with (or NoHttp)
    i_call,        \* what network.send_prompt_to_model returned or raised (line 106)
    i_parsed,      \* whether parse_improved_prompt was called (line 118)
    i_out,         \* the pair improve_prompt returned
    \* ---- parse_improved_prompt applied to a reply ----
    p_form,        \* how the reply is built: [kind, body]
    p_reply,       \* response
    p_pc,          \* "idle" | "start" | "parsed" | "reparsed"
    p_out,         \* parse_improved_prompt(response)
    p_again,       \* parse_improved_prompt applied to p_out
    \* ---- the SQLite database of db.py ----
    store,         \* the tables: prompts, models, results, settings, and sqlite_sequence
    foreign_keys,  \* PRAGMA foreign_keys of the connections (the library's default)
    db_ops,        \* writing calls made so far
    db_ret,        \* the last call: its name, arguments, return value or exception
    s_last,        \* s_last[k]: the value of the most recent set_setting(k, v), or Unset
    \* ---- MainWindow: sending a prompt and saving the selected results ----
    current_prompt_id,  \* self.current_prompt_id, 0 for None
    temp_results,       \* self.temp_results
    checked,            \* checked[row]: the checkbox of the row of results_table
    request_thread,     \* the RequestThread: [state, prompt, models_list]
    dispatched,         \* the id of the prompt the latest dispatch was started for
    w_msg,              \* the text of the latest message box
    w_saved             \* the rows chosen when save_selected_results was last called

dispatchVars == <<models_list, env, server, main_pc, submitted, queue, task_pc,
                  task_client, posts, futures, collected, results>>
callVars == <<call_cfg, call_env, call_pc, call_client, call_http, call_posts,
              call_req, call_out>>
envVars == <<environ, changes, t_cfg, t_pc, t_client, t_getenv, t_req>>
logVars == <<l_cfg, l_env, l_pc, l_client, l_http, l_log, l_out>>
improveVars == <<i_prompt, i_cfg, i_env, i_pc, i_resolved, i_client, i_posts, i_sent,
                 i_http, i_call, i_parsed, i_out>>
parseVars == <<p_form, p_reply, p_pc, p_out, p_again>>
dbVars == <<store, foreign_keys, db_ops, db_ret, s_last>>
windowVars == <<current_prompt_id, temp_results, checked, request_thread, dispatched,
                w_msg, w_saved>>
vars == <<dispatchVars, callVars, envVars, logVars, improveVars, parseVars, dbVars,
          windowVars>>

\* What the actions of each specification leave alone
notDispatchVars == <<callVars, envVars, logVars, improveVars, parseVars, dbVars, windowVars>>
notCallVars == <<dispatchVars, envVars, logVars, improveVars, parseVars, dbVars, windowVars>>
notEnvVars == <<dispatchVars, callVars, logVars, improveVars, parseVars, dbVars, windowVars>>
notLogVars == <<dispatchVars, callVars, envVars, improveVars, parseVars, dbVars, windowVars>>
notImproveVars == <<dispatchVars, callVars, envVars, logVars, parseVars, dbVars, windowVars>>
notParseVars == <<dispatchVars, callVars, envVars, logVars, improveVars, dbVars, windowVars>>
notDbVars == <<dispatchVars, callVars, envVars, logVars, improveVars, parseVars, windowVars>>
notWindowVars == <<dispatchVars, callVars, envVars, logVars, improveVars, parseVars>>

-----------------------------------------------------------------------------
(* Python values *)

PyNone == <<"None">>
PyStr(s) == <<"str", s>>
PyInt(digits) == <<"int", digits>>
EmptyDict == <<"dict">>
EmptyList == <<"list">>

Tag(v) == v[1]

\* k in d, for a dict d
HasKey(d, k) == \E i \in 2..Len(d) : d[i][1] = k

\* d[k], for a dict d that has k
Lookup(d, k) == d[CHOOSE i \in 2..Len(d) : d[i][1] = k][2]

\* The outcome of evaluating a Python expression: a value, or a raised exception.
Ret(v) == [exc |-> "", msg |-> "", val |-> v]
Raise(cls, m) == [exc |-> cls, msg |-> m, val |-> PyNone]

\* F applied to the value of v, v being evaluated once
Bind(v, F(_)) == CHOOSE y \in {F(x) : x \in {v}} : TRUE

\* Sequencing of two statements: the second runs on the first one's value
\* unless the first raised
Then(r, F(_)) == Bind(r, LAMBDA x : IF x.exc # "" THEN x ELSE F(x.val))

\* v[k] for a string key k
GetItemKey(v, k) ==
    CASE Tag(v) = "dict" -> IF HasKey(v, k) THEN Ret(Lookup(v, k))
                            ELSE Raise("KeyError", "'" \o k \o "'")
      [] Tag(v) = "list" -> Raise("TypeError", "list indices must be integers or slices, not str")
      [] Tag(v) = "str"  -> Raise("TypeError", "string indices must be integers")
      [] Tag(v) = "int"  -> Raise("TypeError", "'int' object is not subscriptable")
      [] OTHER           -> Raise("TypeError", "'NoneType' object is not subscriptable")

\* v[0].  The first character of a non-empty str is itself a str; which
\* character it is decides nothing, every later step is a key lookup.
GetItem0(v) ==
    CASE Tag(v) = "list" -> IF Len(v) > 1 THEN Ret(v[2])
                            ELSE Raise("IndexError", "list index out of range")
      [] Tag(v) = "str"  -> IF v[2] # "" THEN Ret(PyStr("c"))
                            ELSE Raise("IndexError", "string index out of range")
      [] Tag(v) = "dict" -> Raise("KeyError", "0")
      [] Tag(v) = "int"  -> Raise("TypeError", "'int' object is not subscriptable")
      [] OTHER           -> Raise("TypeError", "'NoneType' object is not subscriptable")

\* len(v): only whether it raises matters to the caller
PyLen(v) ==
    CASE Tag(v) \in {"str", "list", "dict"} -> Ret(PyNone)
      [] Tag(v) = "int" -> Raise("TypeError", "object of type 'int' has no len()")
      [] OTHER          -> Raise("TypeError", "object of type 'NoneType' has no len()")

\* bool(v)
Truthy(v) ==
    CASE Tag(v) = "str"  -> v[2] # ""
      [] Tag(v) = "int"  -> v[2] # "0"
      [] Tag(v) \in {"list", "dict"} -> Len(v) > 1
      [] OTHER -> FALSE

\* str(v) inside an f-string (the repr of a container is abbreviated)
Format(v) ==
    CASE Tag(v) = "str"  -> v[2]
      [] Tag(v) = "int"  -> v[2]
      [] Tag(v) = "list" -> "[..]"
      [] Tag(v) = "dict" -> "{..}"
      [] OTHER -> "None"

\* v.get(k, default)
DictGet(v, k, default) ==
    IF Tag(v) = "dict"
    THEN Ret(IF HasKey(v, k) THEN Lookup(v, k) ELSE default)
    ELSE Raise("AttributeError", "object has no attribute 'get'")

-----------------------------------------------------------------------------
(* Strings the code inspects: sequences of characters *)

UpperLetters == <<"A","B","C","D","E","F","G","H","I","J","K","L","M",
                  "N","O","P","Q","R","S","T","U","V","W","X","Y","Z">>
LowerLetters == <<"a","b","c","d","e","f","g","h","i","j","k","l","m",
                  "n","o","p","q","r","s","t","u","v","w","x","y","z">>

LowerChar(c) ==
    IF \E i \in 1..Len(UpperLetters) : UpperLetters[i] = c
    THEN LowerLetters[CHOOSE i \in 1..Len(UpperLetters) : UpperLetters[i] = c]
    ELSE c

\* s.lower()
Lower(s) == [i \in 1..Len(s) |-> LowerChar(s[i])]

\* sub in s
Contains(s, sub) ==
    \E t \in {s} : \E i \in 1..(Len(t) - Len(sub) + 1) : SubSeq(t, i, i + Len(sub) - 1) = sub

\* The value dict.get gives for a key the dict does not hold: None
NoneS == <<"<None>">>

\* not s, for s a str or None
Falsy(s) == s = NoneS \/ s = <<>>

openrouter == <<"o","p","e","n","r","o","u","t","e","r">>
openai == <<"o","p","e","n","a","i">>
deepseek == <<"d","e","e","p","s","e","e","k">>
groq == <<"g","r","o","q">>
Unknown == <<"U","n","k","n","o","w","n">>
OPENROUTER_API_KEY == <<"O","P","E","N","R","O","U","T","E","R","_","A","P","I","_","K","E","Y">>

\* model_data.get(k, default): a config is a record of the keys it holds,
\* "present" naming them
CfgGet(cfg, k, default) == IF k \in cfg.present THEN cfg[k] ELSE default

-----------------------------------------------------------------------------
(* network.py: the clients *)

\* BaseAPIClient.__init__: timeout: int = 30
DefaultTimeout == 30

\* os.getenv of a variable the environment does not hold: None
NoKey == "<None>"

\* not api_key
KeyFalsy(k) == k = NoKey \/ k = ""

\* A client object: its class and the fields __init__ sets.
Client(cls, api_key, api_url) ==
    [cls |-> cls, api_key |-> api_key, api_url |-> api_url, timeout |-> DefaultTimeout]

\* create_client's None
NoClient == [cls |-> "None", api_key |-> NoKey, api_url |-> <<>>, timeout |-> 0]

\* _get_headers: the Authorization header, and the two extra headers of
\* OpenRouterClient
get_headers(client) ==
    [Authorization |-> "Bearer " \o client.api_key,
     extra |-> IF client.cls = "OpenRouterClient" THEN {"HTTP-Referer", "X-Title"} ELSE {}]

GPT4 == <<"g","p","t","-","4">>
DEEPSEEK_CHAT == <<"d","e","e","p","s","e","e","k","-","c","h","a","t">>
LLAMA_GROQ == <<"l","l","a","m","a","-","3",".","1","-","7","0","b","-","v","e","r","s","a","t","i","l","e">>
GPT4_OPENROUTER == <<"o","p","e","n","a","i","/","g","p","t","-","4">>

\* The model each client class sends when no model_name is given.
DefaultModel(cls) ==
    CASE cls = "OpenRouterClient" -> GPT4_OPENROUTER
      [] cls = "DeepSeekClient" -> DEEPSEEK_CHAT
      [] cls = "GroqClient" -> LLAMA_GROQ
      [] OTHER -> GPT4

\* _prepare_request_data: model = model_name or <default>
prepare_request_data(client, model_name) ==
    [model |-> IF Falsy(model_name) THEN DefaultModel(client.cls) ELSE model_name,
     role |-> "user",
     temperature |-> "0.7"]

\* _extract_response: response_data["choices"][0]["message"]["content"],
\* the same in all four client classes
extract_response(response_data) ==
    Then(GetItemKey(response_data, "choices"), LAMBDA choices :
    Then(GetItem0(choices), LAMBDA first :
    Then(GetItemKey(first, "message"), LAMBDA message :
    GetItemKey(message, "content"))))

-----------------------------------------------------------------------------
(* What an HTTP POST ends with *)

\* The body of a reply that is not JSON
NotJson == <<"notjson">>

\* requests.post raised (kind names the exception class), or a reply came.
\* json_error is the class response.json() raises on a body that is not
\* JSON: requests.exceptions.JSONDecodeError (a RequestException and a
\* ValueError) from requests 2.27 on, a plain ValueError before.
Reply(status, body, json_error) ==
    [kind |-> "reply", status |-> status, body |-> body, json_error |-> json_error]
PostRaised(cls) ==
    [kind |-> cls, status |-> 0, body |-> NotJson, json_error |-> "ValueError"]
NoHttp == [kind |-> "none", status |-> 0, body |-> NotJson, json_error |-> "ValueError"]

\* response.json()
response_json(http) ==
    IF http.body = NotJson
    THEN Raise(http.json_error, "Expecting value: line 1 column 1 (char 0)")
    ELSE Ret(http.body)

\* isinstance(e, cls) for the exception classes the handlers name
IsA(exc, cls) ==
    \/ exc = cls
    \/ cls = "Exception" /\ exc # ""
    \/ cls = "RequestException"
         /\ exc \in {"Timeout", "ConnectionError", "RequestsJSONDecodeError"}
    \/ cls = "ValueError" /\ exc \in {"RequestsJSONDecodeError", "JSONDecodeError"}

-----------------------------------------------------------------------------
(* network.py: BaseAPIClient *)

\* lines 79-81, the bare except: '' when the try body raised
OrEmpty(r) == IF r.exc # "" THEN PyStr("") ELSE r.val

\* _get_user_friendly_error, lines 75-81: error_message, '' when the body
\* is not JSON or not of the shape {"error": {...}}
error_message_of(http) ==
    Bind(Then(response_json(http), LAMBDA error_data :
         Then(DictGet(error_data, "error", EmptyDict), LAMBDA err :
         DictGet(err, "message", PyStr("")))), OrEmpty)

\* _get_user_friendly_error with > 500 for >= 500
get_user_friendly_error_gt500(client, http) ==
    LET status_code == http.status
        error_message == error_message_of(http)
        detail == IF Truthy(error_message) THEN ": " \o Format(error_message) ELSE ""
    IN  CASE status_code = 400 -> "Bad request" \o detail
          [] status_code = 401 -> "Invalid API key. Check the key in the .env file"
          [] status_code = 402 -> "Payment required. Top up the account balance or choose another model"
          [] status_code = 403 -> "Access forbidden. Check the API access rights"
          [] status_code = 404 ->
                IF Contains(Lower(client.api_url), openrouter)
                THEN "Model not found. Check the model name in the settings"
                ELSE "Resource not found. Check the API URL"
          [] status_code = 429 -> "Rate limit exceeded. Wait a little and try again"
          [] status_code > 500 ->
                "Server error (code " \o ToString(status_code) \o "). Service temporarily unavailable"
          [] OTHER -> "HTTP error " \o ToString(status_code) \o detail

\* _get_user_friendly_error, lines 70-108
get_user_friendly_error(client, http) ==
    LET status_code == http.status
        error_message == error_message_of(http)
        detail == IF Truthy(error_message) THEN ": " \o Format(error_message) ELSE ""
    IN  CASE status_code = 400 -> "Bad request" \o detail                                   \* 85
          [] status_code = 401 -> "Invalid API key. Check the key in the .env file"         \* 90
          [] status_code = 402 -> "Payment required. Top up the account balance or choose another model" \* 92
          [] status_code = 403 -> "Access forbidden. Check the API access rights"           \* 94
          [] status_code = 404 ->
                IF Contains(Lower(client.api_url), openrouter)
                THEN "Model not found. Check the model name in the settings"                \* 97
                ELSE "Resource not found. Check the API URL"                                \* 98
          [] status_code = 429 -> "Rate limit exceeded. Wait a little and try again"        \* 100
          [] status_code >= 500 ->
                "Server error (code " \o ToString(status_code) \o "). Service temporarily unavailable" \* 102
          [] OTHER -> "HTTP error " \o ToString(status_code) \o detail                      \* 105

\* send_request's try body without the len(result) of line 144
send_request_body_no_len(client, model_name, http) ==
    IF http.kind # "reply" THEN Raise(http.kind, "request failed") ELSE
    IF http.status >= 400 THEN Raise("APIError", get_user_friendly_error(client, http)) ELSE
    Then(response_json(http), LAMBDA response_data : extract_response(response_data))

\* send_request, the try body (lines 125-145): what it returns or raises
send_request_body(client, model_name, http) ==
    IF http.kind # "reply" THEN Raise(http.kind, "request failed") ELSE
    IF http.status >= 400 THEN Raise("APIError", get_user_friendly_error(client, http)) ELSE
    Then(response_json(http), LAMBDA response_data :
    Then(extract_response(response_data), LAMBDA result :
    Then(PyLen(result), LAMBDA n : Ret(result))))

\* send_request, lines 147-165: the except clauses, in their order, on what
\* the try body returned or raised; an exception no clause names propagates
send_request_except(r) ==
    IF r.exc = "" THEN r
    ELSE IF IsA(r.exc, "APIError") THEN r                                                   \* 147
    ELSE IF IsA(r.exc, "Timeout")
    THEN Raise("APIError", "Request timed out. The server did not answer in time")          \* 151
    ELSE IF IsA(r.exc, "ConnectionError")
    THEN Raise("APIError", "Connection error. Check the internet connection")               \* 155
    ELSE IF IsA(r.exc, "RequestException")
    THEN Raise("APIError", "Network error: " \o r.msg)                                      \* 159
    ELSE IF IsA(r.exc, "KeyError") \/ IsA(r.exc, "ValueError")
    THEN Raise("APIError", "Response parsing error: " \o r.msg)                             \* 163
    ELSE r

\* send_request (lines 110-165)
send_request(client, model_name, http) ==
    Bind(send_request_body(client, model_name, http), send_request_except)

-----------------------------------------------------------------------------
(* network.py: the module's functions *)

\* os.getenv(api_id) in environment e
get_api_key(api_id, e) == IF api_id \in DOMAIN e THEN e[api_id] ELSE NoKey

\* 'openrouter' in api_url.lower() or 'openrouter' in name (lines 311, 358)
is_openrouter(api_url, name) ==
    Contains(Lower(api_url), openrouter) \/ Contains(Lower(name), openrouter)

\* create_client without the "if not api_key" checks of lines 316 and 323
create_client_no_key_check(model_data, e) ==
    LET api_id == CfgGet(model_data, "api_id", NoneS)
        api_url == CfgGet(model_data, "api_url", NoneS)
        name == Lower(CfgGet(model_data, "name", <<>>))
    IN  IF Falsy(api_id) \/ Falsy(api_url) THEN NoClient
        ELSE IF Contains(Lower(api_url), openrouter) \/ Contains(name, openrouter)
        THEN Client("OpenRouterClient", get_api_key(OPENROUTER_API_KEY, e), api_url)
        ELSE Client("OpenAIClient", get_api_key(api_id, e), api_url)

\* create_client testing the groq marker before the deepseek marker
create_client_groq_first(model_data, e) ==
    LET api_id == CfgGet(model_data, "api_id", NoneS)
        api_url == CfgGet(model_data, "api_url", NoneS)
        name == Lower(CfgGet(model_data, "name", <<>>))
    IN  IF Falsy(api_id) \/ Falsy(api_url) THEN NoClient
        ELSE IF Contains(Lower(api_url), openrouter) \/ Contains(name, openrouter)
        THEN LET api_key == get_api_key(OPENROUTER_API_KEY, e) IN
             IF KeyFalsy(api_key) THEN NoClient
             ELSE Client("OpenRouterClient", api_key, api_url)
        ELSE LET api_key == get_api_key(api_id, e) IN
             IF KeyFalsy(api_key) THEN NoClient
             ELSE IF Contains(Lower(api_url), openai) \/ Contains(name, openai)
             THEN Client("OpenAIClient", api_key, api_url)
             ELSE IF Contains(Lower(api_url), groq) \/ Contains(name, groq)
             THEN Client("GroqClient", api_key, api_url)
             ELSE IF Contains(Lower(api_url), deepseek) \/ Contains(name, deepseek)
             THEN Client("DeepSeekClient", api_key, api_url)
             ELSE Client("OpenAIClient", api_key, api_url)

\* create_client classifying the gateway by the URL alone
create_client_gateway_by_url(model_data, e) ==
    LET api_id == CfgGet(model_data, "api_id", NoneS)
        api_url == CfgGet(model_data, "api_url", NoneS)
        name == Lower(CfgGet(model_data, "name", <<>>))
    IN  IF Falsy(api_id) \/ Falsy(api_url) THEN NoClient
        ELSE IF Contains(Lower(api_url), openrouter)
        THEN LET api_key == get_api_key(OPENROUTER_API_KEY, e) IN
             IF KeyFalsy(api_key) THEN NoClient
             ELSE Client("OpenRouterClient", api_key, api_url)
        ELSE LET api_key == get_api_key(api_id, e) IN
             IF KeyFalsy(api_key) THEN NoClient
             ELSE IF Contains(Lower(api_url), openai) \/ Contains(name, openai)
             THEN Client("OpenAIClient", api_key, api_url)
             ELSE IF Contains(Lower(api_url), deepseek) \/ Contains(name, deepseek)
             THEN Client("DeepSeekClient", api_key, api_url)
             ELSE IF Contains(Lower(api_url), groq) \/ Contains(name, groq)
             THEN Client("GroqClient", api_key, api_url)
             ELSE Client("OpenAIClient", api_key, api_url)

\* create_client (lines 292-335): the client, or NoClient for None
create_client(model_data, e) ==
    LET api_id == CfgGet(model_data, "api_id", NoneS)
        api_url == CfgGet(model_data, "api_url", NoneS)
        name == Lower(CfgGet(model_data, "name", <<>>))
    IN  IF Falsy(api_id) \/ Falsy(api_url) THEN NoClient
        ELSE IF Contains(Lower(api_url), openrouter) \/ Contains(name, openrouter)
        THEN LET api_key == get_api_key(OPENROUTER_API_KEY, e) IN
             IF KeyFalsy(api_key) THEN NoClient
             ELSE Client("OpenRouterClient", api_key, api_url)
        ELSE LET api_key == get_api_key(api_id, e) IN
             IF KeyFalsy(api_key) THEN NoClient
             ELSE IF Contains(Lower(api_url), openai) \/ Contains(name, openai)
             THEN Client("OpenAIClient", api_key, api_url)
             ELSE IF Contains(Lower(api_url), deepseek) \/ Contains(name, deepseek)
             THEN Client("DeepSeekClient", api_key, api_url)
             ELSE IF Contains(Lower(api_url), groq) \/ Contains(name, groq)
             THEN Client("GroqClient", api_key, api_url)
             ELSE Client("OpenAIClient", api_key, api_url)

\* model_name_for classifying by the URL alone
model_name_for_url_only(model_data) ==
    IF Contains(Lower(CfgGet(model_data, "api_url", <<>>)), openrouter)
    THEN CfgGet(model_data, "api_id", NoneS)
    ELSE NoneS

\* model_name_for passing api_id for every config
model_name_for_every_config(model_data) == CfgGet(model_data, "api_id", NoneS)

\* send_prompt_to_model, lines 356-363: the model_name passed to send_request
model_name_for(model_data) ==
    IF is_openrouter(CfgGet(model_data, "api_url", <<>>), CfgGet(model_data, "name", <<>>))
    THEN CfgGet(model_data, "api_id", NoneS)
    ELSE NoneS

\* The POST send_request issues: URL, headers and JSON body (lines 125-133),
\* with the model_name send_prompt_to_model passed at line 365
request_of(model_data, client) ==
    [url |-> client.api_url,
     headers |-> get_headers(client),
     model_name |-> model_name_for(model_data),
     json |-> prepare_request_data(client, model_name_for(model_data)),
     timeout |-> client.timeout]

\* send_prompt_to_model, lines 365-374: the pair returned for what
\* send_request returned or raised
send_prompt_to_model_except(r) ==
    IF r.exc = ""
    THEN [exc |-> "", msg |-> "", response |-> r.val, error |-> PyNone]                     \* 366
    ELSE IF IsA(r.exc, "APIError")
    THEN [exc |-> "", msg |-> "", response |-> PyNone, error |-> PyStr(r.msg)]              \* 370
    ELSE IF IsA(r.exc, "Exception")
    THEN [exc |-> "", msg |-> "", response |-> PyNone,
          error |-> PyStr("Unexpected error: " \o r.msg)]                                   \* 374
    ELSE [exc |-> r.exc, msg |-> r.msg, response |-> PyNone, error |-> PyNone]

\* send_prompt_to_model (lines 338-374), given the client create_client
\* returned at line 350 and what the POST, if made, ended with:
\* the pair (response, error), or an exception that left the function
send_prompt_to_model(model_data, client, http) ==
    IF client = NoClient
    THEN [exc |-> "", msg |-> "", response |-> PyNone,
          error |-> PyStr("Could not create the API client")]                               \* 352
    ELSE Bind(send_request(client, model_name_for(model_data), http),
              send_prompt_to_model_except)

\* model_data.get('id'): None when the config holds no id
NoId == "None"

Outcome(model_id, model_name, response, error) ==
    [model_id |-> model_id, model_name |-> model_name, response |-> response, error |-> error]

\* What a task leaves in its future: the dict send_to_model returned, or the
\* exception that left send_to_model
Returned(out) == [state |-> "result", exc |-> "", out |-> out]
Failed(cls) == [state |-> "exception", exc |-> cls, out |-> Outcome(NoId, <<>>, PyNone, PyNone)]

\* send_to_model, lines 395-409: the try statement, r being what
\* send_prompt_to_model returned or raised
send_to_model_try(model_id, model_name, r) ==
    IF r.exc = ""
    THEN Returned(Outcome(model_id, model_name, r.response, r.error))                       \* 397
    ELSE IF IsA(r.exc, "Exception")
    THEN Returned(Outcome(model_id, model_name, PyNone, PyStr(r.msg)))                      \* 404
    ELSE Failed(r.exc)

\* send_to_model reading model_data['name'] at line 394, outside the try
send_to_model_subscript(model_data, client, http) ==
    IF "name" \in model_data.present
    THEN Bind(send_prompt_to_model(model_data, client, http), LAMBDA r :
              send_to_model_try(CfgGet(model_data, "id", NoId), model_data.name, r))
    ELSE Failed("KeyError")

\* send_to_model (lines 392-409), the closure each task runs
send_to_model(model_data, client, http) ==
    Bind(send_prompt_to_model(model_data, client, http), LAMBDA r :
         send_to_model_try(CfgGet(model_data, "id", NoId), CfgGet(model_data, "name", Unknown), r))

-----------------------------------------------------------------------------
(* network.py: what the functions write to the log *)

\* A log line: level, text, and the value formatted into the text
LogLine(level, text, arg) == <<level, text, arg>>

\* get_api_key, lines 287-288: the warning names the variable
get_api_key_log(api_id, e) ==
    IF KeyFalsy(get_api_key(api_id, e))
    THEN <<LogLine("WARNING", "API key not found in the environment variables: ", api_id)>>  \* 288
    ELSE <<>>

\* create_client: the lines it and get_api_key log
create_client_log(model_data, e) ==
    LET api_id == CfgGet(model_data, "api_id", NoneS)
        api_url == CfgGet(model_data, "api_url", NoneS)
        name == Lower(CfgGet(model_data, "name", <<>>))
    IN  IF Falsy(api_id) \/ Falsy(api_url)
        THEN <<LogLine("ERROR", "api_id or api_url not given for the model", <<>>)>>           \* 307
        ELSE IF Contains(Lower(api_url), openrouter) \/ Contains(name, openrouter)
        THEN get_api_key_log(OPENROUTER_API_KEY, e) \o
             (IF KeyFalsy(get_api_key(OPENROUTER_API_KEY, e))
              THEN <<LogLine("ERROR", "API key OPENROUTER_API_KEY not found", <<>>)>>          \* 317
              ELSE <<>>)
        ELSE get_api_key_log(api_id, e) \o
             (IF KeyFalsy(get_api_key(api_id, e))
              THEN <<LogLine("ERROR", "API key not found for ", api_id)>>                      \* 324
              ELSE <<>>)

\* len(result) as line 144 formats it
LenOf(v) == IF Tag(v) = "str" THEN Len(v[2]) ELSE Len(v) - 1

\* send_request: the line logged for what the try body (r0) and the
\* whole function (r) returned or raised
send_request_result_log(http, r0, r) ==
    IF r0.exc = ""
    THEN <<LogLine("INFO", "Got a reply, length in characters: ", ToString(LenOf(r0.val)))>>  \* 144
    ELSE IF r0.exc = "APIError"
    THEN <<LogLine("ERROR", "HTTP " \o ToString(http.status) \o ": " \o r0.msg, <<>>)>>       \* 138
    ELSE IF r.exc = "APIError"
    THEN <<LogLine("ERROR", r.msg, <<>>)>>                                  \* 152, 156, 160, 164
    ELSE <<>>

\* send_request logging the headers of the request beside its URL
send_request_log_headers(client, model_name, http) ==
    <<LogLine("INFO", "Sending request to ", client.api_url),
      LogLine("INFO", "Headers: " \o get_headers(client).Authorization, <<>>)>> \o
    Bind(send_request_body(client, model_name, http), LAMBDA r0 :
         send_request_result_log(http, r0, send_request_except(r0)))

\* send_request: the lines it logs
send_request_log(client, model_name, http) ==
    <<LogLine("INFO", "Sending request to ", client.api_url)>> \o                            \* 127
    Bind(send_request_body(client, model_name, http), LAMBDA r0 :
         send_request_result_log(http, r0, send_request_except(r0)))

\* send_prompt_to_model, lines 367-374: the lines its except clauses log
send_prompt_to_model_except_log(r) ==
    IF r.exc = "" THEN <<>>
    ELSE IF IsA(r.exc, "APIError") THEN <<LogLine("ERROR", "API error: " \o r.msg, <<>>)>>   \* 369
    ELSE IF IsA(r.exc, "Exception")
    THEN <<LogLine("ERROR", "Unexpected error: " \o r.msg, <<>>)>>                           \* 373
    ELSE <<>>

\* send_prompt_to_model: the lines logged from line 353 on, by a call that
\* has its client and whose POST ended with http
send_prompt_to_model_log(model_data, client, http) ==
    send_request_log(client, model_name_for(model_data), http) \o
    Bind(send_request(client, model_name_for(model_data), http), send_prompt_to_model_except_log)

-----------------------------------------------------------------------------
(* prompt_improver.py *)

\* The characters str.strip() removes and \s matches
Whitespace == {" ", "\t", "\n", "\r"}

\* The first position from i on that holds no whitespace (Len(s) + 1 when
\* there is none): where a greedy \s* started at i ends
SkipWs(s, i) ==
    CHOOSE j \in i..(Len(s) + 1) :
        /\ \A k \in i..(j - 1) : s[k] \in Whitespace
        /\ j = Len(s) + 1 \/ s[j] \notin Whitespace

\* s.strip()
Strip(s) ==
    LET first == SkipWs(s, 1)
        last == CHOOSE j \in 0..Len(s) :
                    /\ \A k \in (j + 1)..Len(s) : s[k] \in Whitespace
                    /\ j = 0 \/ s[j] \notin Whitespace
    IN  IF first > last THEN <<>> ELSE SubSeq(s, first, last)

\* The literal lit stands in s at position i
StartsAt(s, i, lit) ==
    /\ i + Len(lit) - 1 <= Len(s)
    /\ SubSeq(s, i, i + Len(lit) - 1) = lit

\* The same under re.IGNORECASE, lit being in lower case
StartsAtIgnoreCase(s, i, lit) ==
    /\ i + Len(lit) - 1 <= Len(s)
    /\ Lower(SubSeq(s, i, i + Len(lit) - 1)) = lit

\* ^ and $ under re.MULTILINE: position i (the character at i is the next
\* one to read) starts a line, ends a line
AtLineStart(s, i) == i = 1 \/ s[i - 1] = "\n"
AtLineEnd(s, i) == i = Len(s) + 1 \/ s[i] = "\n"

\* The backquote character, written here as an apostrophe
BACKQUOTE == "'"
FENCE == <<BACKQUOTE, BACKQUOTE, BACKQUOTE>>
LANG_PROMPT == <<"p","r","o","m","p","t">>
LANG_TEXT == <<"t","e","x","t">>
LANG_MARKDOWN == <<"m","a","r","k","d","o","w","n">>

\* line 58: ^FENCE(?:prompt|text|markdown)?\s*\n?
FenceOpen == [kind |-> "fence_open", lit |-> FENCE]
\* line 59: \n?FENCE\s*$
FenceClose == [kind |-> "fence_close", lit |-> FENCE]
\* lines 63-68: ^<prefix>\s* under re.IGNORECASE; the three Russian
\* prefixes are transliterated
Prefix(lit) == [kind |-> "prefix", lit |-> lit]
prefixes ==
    <<Prefix(<<"u","l","u","c","h","s","h","e","n","n","y","j"," ","p","r","o","m","t",":">>),                  \* 63
      Prefix(<<"v","o","t"," ","u","l","u","c","h","s","h","e","n","n","a","y","a"," ","v","e","r","s","i","y","a",":">>),           \* 64
      Prefix(<<"u","l","u","c","h","s","h","e","n","n","a","y","a"," ","v","e","r","s","i","y","a",":">>),               \* 65
      Prefix(<<"i","m","p","r","o","v","e","d"," ","p","r","o","m","p","t",":">>),                     \* 66
      Prefix(<<"h","e","r","e"," ","i","s"," ","t","h","e"," ","i","m","p","r","o","v","e","d"," ","v","e","r","s","i","o","n",":">>),        \* 67
      Prefix(<<"i","m","p","r","o","v","e","d"," ","v","e","r","s","i","o","n",":">>)>>                   \* 68

\* Where (?:prompt|text|markdown)? tried at j ends
AfterLanguage(s, j) ==
    IF StartsAt(s, j, LANG_PROMPT) THEN j + Len(LANG_PROMPT)
    ELSE IF StartsAt(s, j, LANG_TEXT) THEN j + Len(LANG_TEXT)
    ELSE IF StartsAt(s, j, LANG_MARKDOWN) THEN j + Len(LANG_MARKDOWN)
    ELSE j

\* Where FENCE\s*$ tried at j ends (0: no match): the greedy \s* gives back
\* characters until $ holds
FenceCloseEnd(s, j) ==
    IF ~StartsAt(s, j, FENCE) THEN 0
    ELSE LET ends == {q \in (j + 3)..SkipWs(s, j + 3) : AtLineEnd(s, q)}
         IN  IF ends = {} THEN 0 ELSE CHOOSE q \in ends : \A r \in ends : r <= q

\* Where a match of pattern pat that starts at position i of s ends: the
\* position after its last character, 0 when pat does not match at i
MatchEnd(pat, s, i) ==
    CASE pat.kind = "fence_open" ->
            IF AtLineStart(s, i) /\ StartsAt(s, i, FENCE)
            THEN SkipWs(s, AfterLanguage(s, i + 3))
            ELSE 0
      [] pat.kind = "fence_close" ->
            IF s[i] = "\n" /\ FenceCloseEnd(s, i + 1) > 0
            THEN FenceCloseEnd(s, i + 1)
            ELSE FenceCloseEnd(s, i)
      [] OTHER ->
            IF AtLineStart(s, i) /\ StartsAtIgnoreCase(s, i, pat.lit)
            THEN SkipWs(s, i + Len(pat.lit))
            ELSE 0

\* re.sub(pat, '', s) from position i on: the leftmost match at or after i
\* is left out and the scan goes on behind it; the other characters are kept
RECURSIVE ReSubFrom(_, _, _)
ReSubFrom(pat, s, i) ==
    LET rest(starts) ==
            IF starts = {} THEN SubSeq(s, i, Len(s))
            ELSE LET m == CHOOSE k \in starts : \A j \in starts : k <= j
                 IN  SubSeq(s, i, m - 1) \o ReSubFrom(pat, s, MatchEnd(pat, s, m))
    IN  Bind({m \in i..Len(s) : MatchEnd(pat, s, m) > 0}, rest)

ReSub(pat, s) == ReSubFrom(pat, s, 1)

\* lines 70-71: the prefixes from the k-th on are removed, one after the other
RECURSIVE RemovePrefixes(_, _)
RemovePrefixes(s, k) ==
    IF k > Len(prefixes) THEN s
    ELSE Bind(ReSub(prefixes[k], s), LAMBDA t : RemovePrefixes(t, k + 1))

\* parse_improved_prompt (lines 42-81), response being a str
parse_improved_prompt(response) ==
    IF response = <<>> THEN <<>>                                                            \* 53
    ELSE Bind(ReSub(FenceOpen, response), LAMBDA r1 :                                       \* 58
         Bind(ReSub(FenceClose, r1), LAMBDA r2 :                                            \* 59
         Bind(RemovePrefixes(r2, 1), Strip)))                                               \* 74

\* The str of a sequence of characters
RECURSIVE Str(_)
Str(cs) == IF cs = <<>> THEN "" ELSE Head(cs) \o Str(Tail(cs))

\* A str value that carries its characters
PyText(cs) == <<"str", Str(cs), cs>>

\* What generate_improvement_prompt returns: the template (lines 12-23)
\* with original_prompt filled in
ImprovementPrompt(original_prompt) ==
    [template |-> "IMPROVEMENT_PROMPT_TEMPLATE", original_prompt |-> original_prompt]
NoPrompt == [template |-> "", original_prompt |-> <<>>]

\* generate_improvement_prompt testing "not original" alone
generate_improvement_prompt_no_strip(original) ==
    IF Falsy(original)
    THEN Raise("ValueError", "The original prompt cannot be empty")
    ELSE Ret(ImprovementPrompt(Strip(original)))

\* generate_improvement_prompt (lines 26-39), original being a str or None
generate_improvement_prompt(original) ==
    IF Falsy(original) \/ Strip(original) = <<>>                                            \* 36
    THEN Raise("ValueError", "The original prompt cannot be empty")                         \* 37
    ELSE Ret(ImprovementPrompt(Strip(original)))                                            \* 39

\* The pair improve_prompt returns
Improved(improved_prompt, error) == [improved_prompt |-> improved_prompt, error |-> error]

\* improve_prompt, lines 128-135: the except clauses
improve_prompt_except(exc, msg) ==
    IF IsA(exc, "ValueError")
    THEN Improved(PyNone, PyStr(msg))                                                       \* 131
    ELSE Improved(PyNone, PyStr("Unexpected error while improving the prompt: " \o msg))    \* 135

\* improve_prompt_result without the emptiness tests of lines 112 and 120
improve_prompt_result_unchecked(r) ==
    IF r.exc # "" THEN improve_prompt_except(r.exc, r.msg)
    ELSE IF Truthy(r.error) THEN Improved(PyNone, r.error)
    ELSE IF Tag(r.response) # "str"
    THEN improve_prompt_except("TypeError", "expected string or bytes-like object")
    ELSE Improved(PyText(parse_improved_prompt(r.response[3])), PyNone)

\* network.send_prompt_to_model not called
NoCall == [exc |-> "", msg |-> "", response |-> PyNone, error |-> PyNone]

\* improve_prompt, lines 108-118: whether the call reaches
\* parse_improved_prompt
improve_prompt_parses(r) ==
    /\ r.exc = ""
    /\ ~Truthy(r.error)                                                                     \* 108
    /\ Truthy(r.response)                                                                   \* 112

\* improve_prompt_result testing "not response" (line 112) before "error"
\* (line 108)
improve_prompt_result_response_first(r) ==
    IF r.exc # "" THEN improve_prompt_except(r.exc, r.msg)
    ELSE IF ~Truthy(r.response)
    THEN Improved(PyNone, PyStr("Empty reply received from the model"))
    ELSE IF Truthy(r.error) THEN Improved(PyNone, r.error)
    ELSE IF Tag(r.response) # "str"
    THEN improve_prompt_except("TypeError", "expected string or bytes-like object")
    ELSE Bind(parse_improved_prompt(r.response[3]), LAMBDA improved_prompt :
         IF improved_prompt = <<>>
         THEN Improved(PyNone,
                       PyStr("Could not extract the improved prompt from the model's reply"))
         ELSE Improved(PyText(improved_prompt), PyNone))

\* improve_prompt, lines 106-126: what is returned for r, the pair
\* send_prompt_to_model returned (or the exception that left it)
improve_prompt_result(r) ==
    IF r.exc # "" THEN improve_prompt_except(r.exc, r.msg)
    ELSE IF Truthy(r.error) THEN Improved(PyNone, r.error)                                  \* 110
    ELSE IF ~Truthy(r.response)
    THEN Improved(PyNone, PyStr("Empty reply received from the model"))                     \* 115
    ELSE IF Tag(r.response) # "str"         \* re.sub at line 58 raises TypeError
    THEN improve_prompt_except("TypeError", "expected string or bytes-like object")
    ELSE Bind(parse_improved_prompt(r.response[3]), LAMBDA improved_prompt :                \* 118
         IF improved_prompt = <<>>
         THEN Improved(PyNone,
                       PyStr("Could not extract the improved prompt from the model's reply")) \* 123
         ELSE Improved(PyText(improved_prompt), PyNone))                                    \* 126

-----------------------------------------------------------------------------
(* db.py: the tables and the operations on them *)

\* None as a column value or an argument (SQL NULL)
NULL == "<NULL>"

\* The database init_database creates (lines 21-122): empty tables, and
\* sqlite_sequence, which keeps the largest id each AUTOINCREMENT table has
\* used
EmptyStore ==
    [prompts |-> {}, models |-> {}, results |-> {}, settings |-> {},
     seq |-> [prompts |-> 0, models |-> 0, results |-> 0, settings |-> 0]]

Max(S) == CHOOSE x \in S : \A y \in S : y <= x
Min(S) == CHOOSE x \in S : \A y \in S : x <= y

\* INTEGER PRIMARY KEY AUTOINCREMENT: one more than the largest id used
NextId(d, table) == Max({r.id : r \in d[table]} \cup {d.seq[table]}) + 1

\* The row inserted into table with a fresh id
Inserted(d, table, row) ==
    [d EXCEPT ![table] = @ \cup {row}, !.seq[table] = row.id]

\* What a call leaves: the database, and its return value or the exception
\* that left it (nothing is committed then)
Done(d, v) == [exc |-> "", val |-> v, db |-> d]
Failed_db(d, cls) == [exc |-> cls, val |-> NULL, db |-> d]

\* get_setting (lines 382-389)
get_setting(d, key, default) ==
    LET rows == {r \in d.settings : r.key = key} IN
    IF rows = {} THEN default
    ELSE (CHOOSE r \in rows : r.id = Min({q.id : q \in rows})).value                       \* fetchone

\* set_setting with a plain INSERT, the key not being UNIQUE
set_setting_insert(d, key, value) ==
    IF key = NULL THEN Failed_db(d, "IntegrityError")
    ELSE Done(Inserted(d, "settings",
                       [id |-> NextId(d, "settings"), key |-> key, value |-> value]), TRUE)

\* set_setting (lines 392-402): INSERT OR REPLACE deletes the row that holds
\* the key (key is UNIQUE, line 92) and inserts a new one
set_setting(d, key, value) ==
    IF key = NULL THEN Failed_db(d, "IntegrityError")                   \* key TEXT NOT NULL
    ELSE LET kept == [d EXCEPT !.settings = {r \in @ : r.key # key}] IN
         Done(Inserted(kept, "settings",
                       [id |-> NextId(d, "settings"), key |-> key, value |-> value]), TRUE)

\* create_prompt (lines 127-138)
create_prompt(d, prompt, tags) ==
    IF prompt = NoneS THEN Failed_db(d, "IntegrityError")              \* prompt TEXT NOT NULL
    ELSE LET id == NextId(d, "prompts") IN
         Done(Inserted(d, "prompts", [id |-> id, prompt |-> prompt, tags |-> tags]), id)

\* delete_prompt (lines 189-197); with foreign keys enforced the results of
\* the prompt go with it (ON DELETE CASCADE, line 71)
delete_prompt(d, fk, prompt_id) ==
    LET gone == [d EXCEPT !.prompts = {r \in @ : r.id # prompt_id}] IN
    Done(IF fk THEN [gone EXCEPT !.results = {r \in @ : r.prompt_id # prompt_id}] ELSE gone,
         \E r \in d.prompts : r.id = prompt_id)

\* The columns of models declared NOT NULL hold no None, and name is UNIQUE
\* (lines 46-53)
ModelsConstraints(rows) ==
    /\ \A r \in rows : r.name # NoneS /\ r.api_url # NoneS /\ r.api_id # NoneS
    /\ \A r, q \in rows : r.name = q.name => r.id = q.id

\* db.create_model (lines 202-213)
db_create_model(d, name, api_url, api_id, is_active) ==
    LET id == NextId(d, "models")
        row == [id |-> id, name |-> name, api_url |-> api_url, api_id |-> api_id,
                is_active |-> is_active]
    IN  IF ~ModelsConstraints(d.models \cup {row}) THEN Failed_db(d, "IntegrityError")
        ELSE Done(Inserted(d, "models", row), id)

\* db.update_model (lines 236-263); kwargs maps some of the allowed fields
\* to their new values
db_update_model(d, model_id, kwargs) ==
    IF DOMAIN kwargs = {} THEN Done(d, FALSE)                                               \* 239
    ELSE LET changed(r) == [f \in DOMAIN r |-> IF f \in DOMAIN kwargs THEN kwargs[f] ELSE r[f]]
             rows == {IF r.id = model_id THEN changed(r) ELSE r : r \in d.models}
         IN  IF ~ModelsConstraints(rows) THEN Failed_db(d, "IntegrityError")
             ELSE Done([d EXCEPT !.models = rows], \E r \in d.models : r.id = model_id)     \* 260

\* db.delete_model (lines 280-288); with foreign keys enforced a model that
\* results refer to cannot be deleted (ON DELETE RESTRICT, line 72)
delete_model(d, fk, model_id) ==
    IF /\ fk
       /\ \E r \in d.models : r.id = model_id
       /\ \E r \in d.results : r.model_id = model_id
    THEN Failed_db(d, "IntegrityError")
    ELSE Done([d EXCEPT !.models = {r \in @ : r.id # model_id}],
              \E r \in d.models : r.id = model_id)

\* save_results, lines 306-311: the rows from the k-th on are inserted
RECURSIVE InsertResults(_, _, _, _)
InsertResults(d, fk, results_list, k) ==
    IF k > Len(results_list) THEN Done(d, Len(results_list))
    ELSE LET result == results_list[k]
             referenced == /\ \E r \in d.prompts : r.id = result.prompt_id
                           /\ \E r \in d.models : r.id = result.model_id
         IN  IF \/ result.response_text = NULL           \* response_text TEXT NOT NULL
                \/ fk /\ ~referenced
             THEN Failed_db(d, "IntegrityError")
             ELSE InsertResults(Inserted(d, "results",
                                         [id |-> NextId(d, "results"),
                                          prompt_id |-> result.prompt_id,
                                          model_id |-> result.model_id,
                                          response_text |-> result.response_text]),
                                fk, results_list, k + 1)

\* save_results (lines 293-315): all rows are committed, or, when an INSERT
\* raises, none
save_results(d, fk, results_list) ==
    IF results_list = <<>> THEN Done(d, 0)                                                  \* 300
    ELSE Bind(InsertResults(d, fk, results_list, 1),
              LAMBDA r : IF r.exc # "" THEN Failed_db(d, r.exc) ELSE r)

\* delete_result (lines 369-377)
delete_result(d, result_id) ==
    Done([d EXCEPT !.results = {r \in @ : r.id # result_id}],
         \E r \in d.results : r.id = result_id)

-----------------------------------------------------------------------------
(* models.py *)

HTTP_PREFIX == <<"h","t","t","p",":","/","/">>
HTTPS_PREFIX == <<"h","t","t","p","s",":","/","/">>

\* validate_model_data (lines 65-82): the error message, "" for a valid model
validate_model_data(name, api_url, api_id) ==
    IF Falsy(name) \/ Strip(name) = <<>>
    THEN "The model name cannot be empty"                                                   \* 71
    ELSE IF Falsy(api_url) \/ Strip(api_url) = <<>>
    THEN "The API URL cannot be empty"                                                      \* 74
    ELSE IF ~(StartsAt(api_url, 1, HTTP_PREFIX) \/ StartsAt(api_url, 1, HTTPS_PREFIX))
    THEN "The API URL must start with http:// or https://"                                  \* 77
    ELSE IF Falsy(api_id) \/ Strip(api_id) = <<>>
    THEN "The API ID (name of the environment variable) cannot be empty"                    \* 80
    ELSE ""

\* models.create_model (lines 85-92)
create_model(d, name, api_url, api_id, is_active) ==
    IF validate_model_data(name, api_url, api_id) # ""
    THEN Failed_db(d, "ValueError")                                                         \* 89
    ELSE db_create_model(d, name, api_url, api_id, is_active)

\* kwargs.get(field, '')
KwargsGet(kwargs, field) == IF field \in DOMAIN kwargs THEN kwargs[field] ELSE <<>>
\* value or current
Or(value, current) == IF Falsy(value) THEN current ELSE value

\* models.update_model (lines 95-120)
update_model(d, model_id, kwargs) ==
    LET current == {r \in d.models : r.id = model_id}
        validated == DOMAIN kwargs \cap {"name", "api_url", "api_id"} # {}                  \* 98
    IN  IF validated /\ current = {}
        THEN Done(d, NULL)                                                                  \* 106
        ELSE IF /\ validated
                /\ \E current_model \in current :
                      validate_model_data(Or(KwargsGet(kwargs, "name"), current_model.name),
                                          Or(KwargsGet(kwargs, "api_url"), current_model.api_url),
                                          Or(KwargsGet(kwargs, "api_id"), current_model.api_id)) # ""
        THEN Failed_db(d, "ValueError")                                                     \* 115
        ELSE db_update_model(d, model_id, kwargs)                                           \* 117

-----------------------------------------------------------------------------
(* The inputs: model configs, environments, HTTP results *)

URL_OPENROUTER == <<"h","t","t","p","s",":","/","/","O","p","e","n","R","o","u","t","e","r",".","a","i">>
URL_OPENAI == <<"h","t","t","p","s",":","/","/","a","p","i",".","o","p","e","n","a","i",".","c","o","m">>
URL_DEEPSEEK == <<"h","t","t","p","s",":","/","/","a","p","i",".","D","e","e","p","S","e","e","k",".","c","o","m">>
URL_GROQ == <<"h","t","t","p","s",":","/","/","a","p","i",".","g","r","o","q",".","c","o","m">>
URL_OTHER == <<"h","t","t","p","s",":","/","/","l","l","m",".","l","o","c","a","l">>
NAME_GPT == <<"G","P","T">>
NAME_ROUTED == <<"O","p","e","n","R","o","u","t","e","r"," ","L","l","a","m","a">>
NAME_GROQ == <<"G","r","o","q">>
NAME_DEEPSEEK == <<"D","e","e","p","S","e","e","k">>
NAME_OPENAI == <<"O","p","e","n","A","I"," ","G","P","T">>
KEY_A == <<"K","E","Y","_","A">>
KEY_B == <<"K","E","Y","_","B">>
KEY_E == <<"K","E","Y","_","E">>
MODEL_ID == <<"m","e","t","a","/","l","l","a","m","a">>

AllKeys == {"id", "name", "api_url", "api_id"}

\* A model config holding every key
Cfg(id, name, api_url, api_id) ==
    [id |-> id, name |-> name, api_url |-> api_url, api_id |-> api_id, present |-> AllKeys]

\* The config without key k
Without(cfg, k) ==
    [[cfg EXCEPT ![k] = IF k = "id" THEN NoId ELSE <<>>] EXCEPT !.present = @ \ {k}]

Urls == {URL_OPENROUTER, URL_OPENAI, URL_DEEPSEEK, URL_GROQ, URL_OTHER, <<>>}
Names == {NAME_GPT, NAME_ROUTED, NAME_GROQ, NAME_DEEPSEEK, NAME_OPENAI, <<>>}
ApiIds == {KEY_A, KEY_B, KEY_E, MODEL_ID, <<>>}

\* The configs of SpecCall: every combination, and each with one key missing
CallConfigs ==
    LET full == {Cfg("1", n, u, a) : n \in Names, u \in Urls, a \in ApiIds}
        some == {Cfg("1", n, u, KEY_A) : n \in {NAME_GPT, NAME_ROUTED}, u \in {URL_OPENROUTER, URL_OTHER}}
    IN  full \cup {Without(c, k) : c \in some, k \in AllKeys}

\* Environments: KEY_B is never set, KEY_E is set to the empty string
ENV_ALL == (KEY_A :> "sk-A") @@ (KEY_E :> "") @@ (OPENROUTER_API_KEY :> "sk-OR")
ENV_NO_GATEWAY == (KEY_A :> "sk-A") @@ (MODEL_ID :> "sk-M")
ENV_EMPTY_GATEWAY == (KEY_A :> "sk-A2") @@ (OPENROUTER_API_KEY :> "")
Envs == {ENV_ALL, ENV_NO_GATEWAY, ENV_EMPTY_GATEWAY}

\* JSON bodies
Dict1(k, v) == <<"dict", <<k, v>>>>
List1(v) == <<"list", v>>
Completion(content) == Dict1("choices", List1(Dict1("message", Dict1("content", content))))

Contents ==
    {PyStr("hello"), PyStr(""), PyNone, PyInt("5"), PyInt("0"),
     EmptyList, List1(PyStr("a")), EmptyDict, Dict1("text", PyStr("a"))}

\* Replies that are JSON but lack the path choices[0].message.content
BrokenBodies ==
    {EmptyDict, EmptyList, PyNone, PyStr("ok"), PyInt("1"),
     Dict1("choices", EmptyList), Dict1("choices", PyNone), Dict1("choices", EmptyDict),
     Dict1("choices", PyStr("")), Dict1("choices", PyStr("abc")),
     Dict1("choices", List1(EmptyDict)), Dict1("choices", List1(PyNone)),
     Dict1("choices", List1(PyStr("x"))),
     Dict1("choices", List1(Dict1("message", PyNone))),
     Dict1("choices", List1(Dict1("message", EmptyDict))),
     Dict1("choices", List1(Dict1("message", PyStr("hi")))),
     Dict1("choices", List1(Dict1("message", EmptyList)))}

\* Bodies of error replies
ErrorBodies ==
    {Dict1("error", Dict1("message", PyStr("quota exceeded"))),
     Dict1("error", Dict1("message", PyStr(""))),
     Dict1("error", Dict1("message", PyNone)),
     Dict1("error", Dict1("type", PyStr("invalid_request_error"))),
     Dict1("error", PyStr("denied")),
     Dict1("error", PyNone),
     EmptyDict, EmptyList, Completion(PyStr("hello"))}

OkStatuses == {200, 201}
InformationalAndRedirect == {101, 300, 304, 399}
ErrorStatuses == {400, 401, 402, 403, 404, 405, 418, 429, 499, 500, 502, 599}

CallHttp ==
    {PostRaised(c) : c \in {"Timeout", "ConnectionError", "RequestException"}}
    \cup {Reply(st, b, "ValueError") :
            st \in OkStatuses \cup InformationalAndRedirect,
            b \in BrokenBodies \cup {Completion(c) : c \in Contents}}
    \cup {Reply(st, NotJson, je) :
            st \in OkStatuses \cup InformationalAndRedirect,
            je \in {"RequestsJSONDecodeError", "JSONDecodeError"}}
    \cup {Reply(st, b, "ValueError") : st \in ErrorStatuses, b \in ErrorBodies \cup {NotJson}}

-----------------------------------------------------------------------------
(* SpecCall: one per-model call *)

NoRequest ==
    [url |-> <<>>, headers |-> [Authorization |-> "", extra |-> {}], model_name |-> NoneS,
     json |-> [model |-> <<>>, role |-> "", temperature |-> ""], timeout |-> 0]

CallIdle ==
    /\ call_cfg = Cfg("1", <<>>, <<>>, <<>>)
    /\ call_env = ENV_ALL
    /\ call_pc = "idle"
    /\ call_client = NoClient
    /\ call_http = NoHttp
    /\ call_posts = 0
    /\ call_req = NoRequest
    /\ call_out = Failed("")

DispatchIdle ==
    /\ models_list = <<>>
    /\ env = ENV_ALL
    /\ server = <<>>
    /\ main_pc = "idle"
    /\ submitted = 0
    /\ queue = <<>>
    /\ task_pc = <<>>
    /\ task_client = <<>>
    /\ posts = <<>>
    /\ futures = <<>>
    /\ collected = {}
    /\ results = <<>>

EnvIdle ==
    /\ environ = ENV_ALL
    /\ changes = 0
    /\ t_cfg = <<>>
    /\ t_pc = <<>>
    /\ t_client = <<>>
    /\ t_getenv = <<>>
    /\ t_req = <<>>

LogIdle ==
    /\ l_cfg = Cfg("1", <<>>, <<>>, <<>>)
    /\ l_env = <<>>
    /\ l_pc = "idle"
    /\ l_client = <<>>
    /\ l_http = NoHttp
    /\ l_log = <<>>
    /\ l_out = <<>>

ImproveIdle ==
    /\ i_prompt = <<>>
    /\ i_cfg = Cfg("1", <<>>, <<>>, <<>>)
    /\ i_env = ENV_ALL
    /\ i_pc = "idle"
    /\ i_resolved = FALSE
    /\ i_client = NoClient
    /\ i_posts = 0
    /\ i_sent = NoPrompt
    /\ i_http = NoHttp
    /\ i_call = NoCall
    /\ i_parsed = FALSE
    /\ i_out = Improved(PyNone, PyNone)

ParseIdle ==
    /\ p_form = [kind |-> "none", body |-> <<>>]
    /\ p_reply = <<>>
    /\ p_pc = "idle"
    /\ p_out = <<>>
    /\ p_again = <<>>

Unset == "<unset>"
SETTING_KEYS == {"theme", "font_size"}

Call(op, args, r) == [op |-> op, args |-> args, exc |-> r.exc, val |-> r.val]
NoDbCall == [op |-> "", args |-> <<>>, exc |-> "", val |-> NULL]

DbIdle ==
    /\ store = EmptyStore
    /\ foreign_keys = FALSE
    /\ db_ops = 0
    /\ db_ret = NoDbCall
    /\ s_last = [k \in SETTING_KEYS |-> Unset]

NoThread == [state |-> "none", prompt |-> <<>>, models_list |-> <<>>]
NoSave == [called |-> FALSE, selected |-> <<>>, dispatched |-> 0, current_prompt_id |-> 0]

\* MainWindow.__init__ (lines 418-419)
WindowIdle ==
    /\ current_prompt_id = 0
    /\ temp_results = <<>>
    /\ checked = <<>>
    /\ request_thread = NoThread
    /\ dispatched = 0
    /\ w_msg = ""
    /\ w_saved = NoSave

InitCall ==
    /\ DispatchIdle
    /\ EnvIdle
    /\ LogIdle
    /\ ImproveIdle
    /\ ParseIdle
    /\ DbIdle
    /\ WindowIdle
    /\ call_cfg \in CallConfigs
    /\ call_env \in Envs
    /\ call_pc = "start"
    /\ call_client = NoClient
    /\ call_http = NoHttp
    /\ call_posts = 0
    /\ call_req = NoRequest
    /\ call_out = Failed("")

\* The task runs up to the blocking requests.post: create_client, and with
\* no client the whole of send_to_model
CallStart ==
    /\ call_pc = "start"
    /\ LET client == create_client(call_cfg, call_env) IN
       /\ call_client' = client
       /\ IF client = NoClient
          THEN LET f == send_to_model(call_cfg, client, NoHttp) IN
               /\ call_out' = f
               /\ call_pc' = IF f.state = "result" THEN "returned" ELSE "raised"
               /\ UNCHANGED <<call_posts, call_req>>
          ELSE /\ call_pc' = "inflight"
               /\ call_posts' = call_posts + 1
               /\ call_req' = request_of(call_cfg, client)
               /\ UNCHANGED call_out
    /\ UNCHANGED <<call_cfg, call_env, call_http>>
    /\ UNCHANGED notCallVars

\* requests.post ends with h; the rest of send_request, send_prompt_to_model
\* and send_to_model runs
CallReply(h) ==
    /\ call_pc = "inflight"
    /\ call_http' = h
    /\ LET f == send_to_model(call_cfg, call_client, h) IN
       /\ call_out' = f
       /\ call_pc' = IF f.state = "result" THEN "returned" ELSE "raised"
    /\ UNCHANGED <<call_cfg, call_env, call_client, call_posts, call_req>>
    /\ UNCHANGED notCallVars

NextCall ==
    \/ CallStart
    \/ \E h \in CallHttp : CallReply(h)

SpecCall == InitCall /\ [][NextCall]_vars

-----------------------------------------------------------------------------
(* Claims about one per-model call (SpecCall) *)

CallDone == call_pc \in {"returned", "raised"}
Is2xx(status) == status \in 200..299

\* C2: every outcome send_to_model produces has exactly one of response and
\* error set (not None): never both, never neither.
C2_Exclusive ==
    CallDone =>
        /\ call_pc = "returned"
        /\ (call_out.out.response # PyNone) # (call_out.out.error # PyNone)

\* C2's case: a 2xx reply whose content is null ended in an outcome with an
\* error and no response.
C2_Witness ==
    /\ call_pc = "returned"
    /\ call_http = Reply(200, Completion(PyNone), "ValueError")
    /\ call_out.out.response = PyNone
    /\ call_out.out.error # PyNone

\* The environment variable create_client reads the credential from
CredentialVar(cfg) ==
    IF is_openrouter(CfgGet(cfg, "api_url", <<>>), CfgGet(cfg, "name", <<>>))
    THEN OPENROUTER_API_KEY
    ELSE CfgGet(cfg, "api_id", NoneS)

\* The config lacks its URL or its credential reference, or the environment
\* lacks the credential
Unconfigured(cfg, e) ==
    \/ "api_url" \notin cfg.present \/ cfg.api_url = <<>>
    \/ "api_id" \notin cfg.present \/ cfg.api_id = <<>>
    \/ CredentialVar(cfg) \notin DOMAIN e
    \/ e[CredentialVar(cfg)] = ""

\* C5: for a config without endpoint URL or credential reference, or whose
\* credential variable is unset or empty, create_client returns no client,
\* no HTTP POST is issued and the outcome is the fixed 'could not create
\* the client' error with no response.
C5_NoClientNoPost ==
    (call_pc # "start" /\ call_pc # "idle" /\ Unconfigured(call_cfg, call_env)) =>
        /\ call_client = NoClient
        /\ call_posts = 0
        /\ call_req = NoRequest
        /\ call_pc = "returned"
        /\ call_out.out.response = PyNone
        /\ call_out.out.error = PyStr("Could not create the API client")

\* C5's case: URL and credential reference are given, the variable is unset.
C5_Witness ==
    /\ call_pc = "returned"
    /\ call_cfg = Cfg("1", NAME_GPT, URL_OPENAI, KEY_B)
    /\ KEY_B \notin DOMAIN call_env
    /\ call_posts = 0
    /\ call_out.out.error = PyStr("Could not create the API client")

\* The provider detail of the error replies: of ErrorBodies, one holds a
\* non-empty error.message
DetailOf(body) ==
    IF body = Dict1("error", Dict1("message", PyStr("quota exceeded")))
    THEN ": quota exceeded"
    ELSE ""

\* C6: for a reply with status s >= 400 the error text is the table's:
\* 400 bad request (+ detail), 401 invalid credential, 402 payment required,
\* 403 forbidden, 404 not found, 429 rate limited, s >= 500 server error
\* naming s, any other s generic 'HTTP s' (+ detail); the detail is appended
\* for 400 and the generic category only.
C6_StatusTable ==
    (call_pc = "returned" /\ call_http.kind = "reply" /\ call_http.status >= 400) =>
        LET st == call_http.status
            detail == DetailOf(call_http.body)
            text == call_out.out.error
        IN  /\ call_out.out.response = PyNone
            /\ st = 400 => text = PyStr("Bad request" \o detail)
            /\ st = 401 => text = PyStr("Invalid API key. Check the key in the .env file")
            /\ st = 402 => text = PyStr("Payment required. Top up the account balance or choose another model")
            /\ st = 403 => text = PyStr("Access forbidden. Check the API access rights")
            /\ st = 404 => text \in {PyStr("Model not found. Check the model name in the settings"),
                                     PyStr("Resource not found. Check the API URL")}
            /\ st = 429 => text = PyStr("Rate limit exceeded. Wait a little and try again")
            /\ st >= 500 => text = PyStr("Server error (code " \o ToString(st)
                                         \o "). Service temporarily unavailable")
            /\ (st \notin {400, 401, 402, 403, 404, 429} /\ st < 500) =>
                    text = PyStr("HTTP error " \o ToString(st) \o detail)

\* C6's case: a status of the generic category, with provider detail.
C6_Witness ==
    /\ call_pc = "returned"
    /\ call_http = Reply(418, Dict1("error", Dict1("message", PyStr("quota exceeded"))), "ValueError")
    /\ call_out.out.error = PyStr("HTTP error 418: quota exceeded")

\* C7: every reply whose status is not 2xx yields an outcome with an error
\* and no response; a response is returned only for a 2xx reply.
C7_Non2xxIsError ==
    (call_pc = "returned" /\ call_http.kind = "reply" /\ ~Is2xx(call_http.status)) =>
        /\ call_out.out.error # PyNone
        /\ call_out.out.response = PyNone

\* The reply holds a string at choices[0].message.content
HasStringContent(body) == \E t \in {"hello", ""} : body = Completion(PyStr(t))

\* C8: a 2xx reply in which choices[0].message.content is absent or not a
\* string yields an outcome with an error and no response.
C8_NonStringContentIsError ==
    (/\ call_pc = "returned"
     /\ call_http.kind = "reply"
     /\ Is2xx(call_http.status)
     /\ ~HasStringContent(call_http.body)) =>
        /\ call_out.out.error # PyNone
        /\ call_out.out.response = PyNone

\* The provider markers in their priority order, and the adapter each
\* designates
Markers == <<openrouter, openai, deepseek, groq>>
AdapterOf == <<"OpenRouterClient", "OpenAIClient", "DeepSeekClient", "GroqClient">>
GenericAdapter == "OpenAIClient"

\* The markers string s contains, case-insensitively, by their priority
MarkersIn(s) == {k \in 1..Len(Markers) : Contains(Lower(s), Markers[k])}

\* The markers that match a config: those in its URL or in its name
Matching(cfg) ==
    MarkersIn(CfgGet(cfg, "api_url", <<>>)) \cup MarkersIn(CfgGet(cfg, "name", <<>>))

\* The highest-priority marker of a non-empty set
First(ks) == CHOOSE k \in ks : \A j \in ks : k <= j

\* C13: create_client selects the adapter of the first marker, in the order
\* openrouter, openai, deepseek, groq, that matches the config (in its URL
\* or its name, case-insensitively), and the generic adapter when none
\* matches; a config matching several markers gets the adapter of the
\* highest-priority one.
C13_FirstMatchingMarker ==
    call_client # NoClient =>
        call_client.cls = IF Matching(call_cfg) = {} THEN GenericAdapter
                          ELSE AdapterOf[First(Matching(call_cfg))]

\* C13's case: a config matching the deepseek marker (in its name, in mixed
\* case) and the groq marker (in its URL) got the DeepSeek adapter.
C13_Witness ==
    /\ call_cfg = Cfg("1", NAME_DEEPSEEK, URL_GROQ, KEY_A)
    /\ Matching(call_cfg) = {3, 4}
    /\ call_client.cls = "DeepSeekClient"

\* C14: whenever the endpoint URL contains a provider marker, the adapter
\* create_client chooses is the one that marker designates, whatever the
\* display name contains.
C14_UrlDecides ==
    (call_client # NoClient /\ MarkersIn(CfgGet(call_cfg, "api_url", <<>>)) # {}) =>
        call_client.cls = AdapterOf[First(MarkersIn(CfgGet(call_cfg, "api_url", <<>>)))]

\* The config is classified as gateway: the openrouter marker matches it
IsGateway(cfg) == 1 \in Matching(cfg)

\* C15: for a config classified as gateway, the credential sent is the value
\* of OPENROUTER_API_KEY, whatever api_id holds, and the model identifier in
\* the request body is the config's api_id.
C15_GatewayCredentialAndModel ==
    (call_posts > 0 /\ IsGateway(call_cfg)) =>
        /\ call_req.headers.Authorization = "Bearer " \o call_env[OPENROUTER_API_KEY]
        /\ call_req.json.model = call_cfg.api_id

\* C15's case: a config classified as gateway by its name alone, whose
\* api_id is also the name of a set environment variable: the gateway's
\* credential is sent, and api_id as the model.
C15_Witness ==
    /\ call_cfg = Cfg("1", NAME_ROUTED, URL_OTHER, KEY_A)
    /\ call_env = ENV_ALL
    /\ call_req.headers.Authorization = "Bearer sk-OR"
    /\ call_req.json.model = KEY_A

\* The built-in default model of the adapter the markers designate
BuiltInDefault(cfg) ==
    LET ks == Matching(cfg) IN
    IF ks = {} \/ First(ks) = 2 THEN GPT4
    ELSE IF First(ks) = 3 THEN DEEPSEEK_CHAT
    ELSE LLAMA_GROQ

\* C16: for a config not classified as gateway, the credential sent is the
\* value of the environment variable api_id names, no model identifier is
\* passed on, and the model in the request body is the selected adapter's
\* built-in default.
C16_OwnCredentialDefaultModel ==
    (call_posts > 0 /\ ~IsGateway(call_cfg)) =>
        /\ call_req.headers.Authorization = "Bearer " \o call_env[call_cfg.api_id]
        /\ call_req.json.model = BuiltInDefault(call_cfg)

\* C16's case: a groq config whose variable is set: its own credential is
\* sent, with the Groq adapter's default model.
C16_Witness ==
    /\ call_cfg = Cfg("1", NAME_GROQ, URL_GROQ, KEY_A)
    /\ call_env = ENV_EMPTY_GATEWAY
    /\ call_req.headers.Authorization = "Bearer sk-A2"
    /\ call_req.json.model = LLAMA_GROQ

-----------------------------------------------------------------------------
(* SpecEnv: per-model calls, concurrent or one after the other, while
   os.environ changes *)

\* Calls made, and changes made to os.environ, in one behaviour
MaxCalls == 2
MaxChanges == 2

ENV_VARS == {KEY_A, OPENROUTER_API_KEY}
ENV_VALUES == {"sk-1", "sk-2"}

\* Two configs naming the same variable in api_id, one of them a gateway
\* config by its name
ENV_CONFIGS == {Cfg("1", NAME_GPT, URL_OPENAI, KEY_A), Cfg("2", NAME_ROUTED, URL_OTHER, KEY_A)}

Calls == 1..MaxCalls

InitEnv ==
    /\ DispatchIdle
    /\ CallIdle
    /\ LogIdle
    /\ ImproveIdle
    /\ ParseIdle
    /\ DbIdle
    /\ WindowIdle
    /\ environ = ENV_ALL
    /\ changes = 0
    /\ t_cfg \in [Calls -> ENV_CONFIGS]
    /\ t_pc = [c \in Calls |-> "new"]
    /\ t_client = [c \in Calls |-> NoClient]
    /\ t_getenv = [c \in Calls |-> NoKey]
    /\ t_req = [c \in Calls |-> NoRequest]

\* os.environ[k] = v, by the process's other code
EnvSet(k, v) ==
    /\ changes < MaxChanges
    /\ changes' = changes + 1
    /\ environ' = [x \in DOMAIN environ \cup {k} |-> IF x = k THEN v ELSE environ[x]]
    /\ UNCHANGED <<t_cfg, t_pc, t_client, t_getenv, t_req>>
    /\ UNCHANGED notEnvVars

\* del os.environ[k]
EnvUnset(k) ==
    /\ changes < MaxChanges
    /\ k \in DOMAIN environ
    /\ changes' = changes + 1
    /\ environ' = [x \in DOMAIN environ \ {k} |-> environ[x]]
    /\ UNCHANGED <<t_cfg, t_pc, t_client, t_getenv, t_req>>
    /\ UNCHANGED notEnvVars

\* Resolve with a module-level cache of credentials: a credential another
\* call has read is used again
ResolveCached(c) ==
    /\ t_pc[c] = "new"
    /\ \E client \in {create_client(t_cfg[c], environ)} :
       \E known \in {{d \in Calls : t_client[d] # NoClient}} :
          /\ t_client' = [t_client EXCEPT ![c] =
                IF client = NoClient \/ known = {} THEN client
                ELSE [client EXCEPT !.api_key = t_client[CHOOSE d \in known : TRUE].api_key]]
          /\ t_pc' = [t_pc EXCEPT ![c] = IF client = NoClient THEN "noclient" ELSE "resolved"]
    /\ t_getenv' = [t_getenv EXCEPT ![c] =
          get_api_key(IF is_openrouter(t_cfg[c].api_url, t_cfg[c].name)
                      THEN OPENROUTER_API_KEY ELSE t_cfg[c].api_id, environ)]
    /\ UNCHANGED <<environ, changes, t_cfg, t_req>>
    /\ UNCHANGED notEnvVars

\* send_prompt_to_model, line 350: call c resolves its client; os.getenv
\* (line 286) reads the environment as it is now
Resolve(c) ==
    /\ t_pc[c] = "new"
    /\ \E client \in {create_client(t_cfg[c], environ)} :
          /\ t_client' = [t_client EXCEPT ![c] = client]
          /\ t_pc' = [t_pc EXCEPT ![c] = IF client = NoClient THEN "noclient" ELSE "resolved"]
    /\ t_getenv' = [t_getenv EXCEPT ![c] =
          get_api_key(IF is_openrouter(t_cfg[c].api_url, t_cfg[c].name)
                      THEN OPENROUTER_API_KEY ELSE t_cfg[c].api_id, environ)]
    /\ UNCHANGED <<environ, changes, t_cfg, t_req>>
    /\ UNCHANGED notEnvVars

\* send_request, lines 125-133: call c posts its request, with the headers
\* its client built in __init__
Send(c) ==
    /\ t_pc[c] = "resolved"
    /\ t_req' = [t_req EXCEPT ![c] = request_of(t_cfg[c], t_client[c])]
    /\ t_pc' = [t_pc EXCEPT ![c] = "sent"]
    /\ UNCHANGED <<environ, changes, t_cfg, t_client, t_getenv>>
    /\ UNCHANGED notEnvVars

NextEnv ==
    \/ \E k \in ENV_VARS, v \in ENV_VALUES : EnvSet(k, v)
    \/ \E k \in ENV_VARS : EnvUnset(k)
    \/ \E c \in Calls : Resolve(c)
    \/ \E c \in Calls : Send(c)

SpecEnv == InitEnv /\ [][NextEnv]_vars

\* C17: the credential in a call's Authorization header is the value the
\* environment held for the call's own config when the call resolved its
\* client: it is read anew by every call, never taken from another call.
C17_CredentialReadPerCall ==
    \A c \in DOMAIN t_pc :
        t_pc[c] = "sent" => t_req[c].headers.Authorization = "Bearer " \o t_getenv[c]

\* C17's case: two calls with the same config, the variable changed between
\* them: each has sent the value the variable had when it resolved.
C17_Witness ==
    /\ DOMAIN t_pc = Calls
    /\ t_cfg[1] = t_cfg[2]
    /\ t_pc[1] = "sent" /\ t_pc[2] = "sent"
    /\ t_req[1].headers.Authorization = "Bearer sk-A"
    /\ t_req[2].headers.Authorization = "Bearer sk-2"
    /\ environ[KEY_A] = "sk-2"

-----------------------------------------------------------------------------
(* SpecLog: two runs of one per-model call, on the same config and the same
   HTTP result, in environments that differ in the value of one variable *)

Runs == {1, 2}

LOG_CONFIGS ==
    {Cfg("1", NAME_GPT, URL_OPENAI, KEY_A),
     Cfg("1", NAME_ROUTED, URL_OTHER, KEY_A),
     Cfg("1", NAME_GROQ, URL_OPENROUTER, MODEL_ID),
     Cfg("1", NAME_DEEPSEEK, URL_DEEPSEEK, KEY_B),
     Cfg("1", NAME_GPT, URL_OTHER, KEY_E),
     Cfg("1", NAME_GPT, <<>>, KEY_A)}

LOG_HTTP ==
    {PostRaised(c) : c \in {"Timeout", "ConnectionError", "RequestException"}}
    \cup {Reply(200, Completion(c), "ValueError") : c \in Contents}
    \cup {Reply(200, b, "ValueError") : b \in {EmptyDict, Dict1("choices", EmptyList)}}
    \cup {Reply(200, NotJson, je) : je \in {"RequestsJSONDecodeError", "JSONDecodeError"}}
    \cup {Reply(st, b, "ValueError") :
            st \in {400, 401, 404, 418, 500},
            b \in {Dict1("error", Dict1("message", PyStr("quota exceeded"))), NotJson}}

\* Environment e with variable k set to v
WithVar(e, k, v) == [x \in DOMAIN e \cup {k} |-> IF x = k THEN v ELSE e[x]]

InitLog ==
    /\ DispatchIdle
    /\ CallIdle
    /\ EnvIdle
    /\ ImproveIdle
    /\ ParseIdle
    /\ DbIdle
    /\ WindowIdle
    /\ l_cfg \in LOG_CONFIGS
    /\ \E e \in Envs, k \in {KEY_A, KEY_E, OPENROUTER_API_KEY}, v \in {"sk-1", "sk-2", ""} :
          l_env = [r \in Runs |-> IF r = 1 THEN e ELSE WithVar(e, k, v)]
    /\ l_pc = "start"
    /\ l_client = [r \in Runs |-> NoClient]
    /\ l_http = NoHttp
    /\ l_log = [r \in Runs |-> <<>>]
    /\ l_out = [r \in Runs |-> Failed("")]

\* Both runs go as far as the blocking requests.post; a run with no client
\* is over
LogStart ==
    /\ l_pc = "start"
    /\ \E cs \in {[r \in Runs |-> create_client(l_cfg, l_env[r])]} :
          /\ l_client' = cs
          /\ l_log' = [r \in Runs |-> create_client_log(l_cfg, l_env[r])]
          /\ l_out' = [r \in Runs |->
                         IF cs[r] = NoClient THEN send_to_model(l_cfg, NoClient, NoHttp)
                         ELSE l_out[r]]
          /\ l_pc' = IF \A r \in Runs : cs[r] = NoClient THEN "done" ELSE "inflight"
    /\ UNCHANGED <<l_cfg, l_env, l_http>>
    /\ UNCHANGED notLogVars

\* The POST of every run that made one ends with h
LogReply(h) ==
    /\ l_pc = "inflight"
    /\ l_http' = h
    /\ l_log' = [r \in Runs |->
                   IF l_client[r] = NoClient THEN l_log[r]
                   ELSE l_log[r] \o send_prompt_to_model_log(l_cfg, l_client[r], h)]
    /\ l_out' = [r \in Runs |->
                   IF l_client[r] = NoClient THEN l_out[r]
                   ELSE send_to_model(l_cfg, l_client[r], h)]
    /\ l_pc' = "done"
    /\ UNCHANGED <<l_cfg, l_env, l_client>>
    /\ UNCHANGED notLogVars

NextLog ==
    \/ LogStart
    \/ \E h \in LOG_HTTP : LogReply(h)

SpecLog == InitLog /\ [][NextLog]_vars

\* Both runs received the same HTTP results: both posted, or neither did
SameHttpResults == (l_client[1] = NoClient) <=> (l_client[2] = NoClient)

\* C18: the credential value is never written to the log: two runs that
\* differ only in the value of a credential variable and receive the same
\* HTTP results emit the same sequence of log lines and return the same
\* outcome.
C18_LogIndependentOfCredential ==
    (l_pc = "done" /\ SameHttpResults) =>
        /\ l_log[1] = l_log[2]
        /\ l_out[1] = l_out[2]

\* C18's case: the two runs have sent different credentials, got status 401
\* and logged its lines.
C18_Witness ==
    /\ l_pc = "done"
    /\ l_http.status = 401
    /\ l_client[1] # NoClient /\ l_client[2] # NoClient
    /\ l_client[1].api_key # l_client[2].api_key
    /\ Len(l_log[1]) = 3
    /\ l_log[1] = l_log[2]

-----------------------------------------------------------------------------
(* SpecImprove: one call of improve_prompt *)

PROMPT_FIX == <<"F","i","x"," ","i","t">>
PROMPT_PADDED == <<" "," ","F","i","x"," ","i","t"," ","\n">>
PROMPT_SPACE == <<" ">>
PROMPT_BLANK_LINES == <<" ","\n","\t","\n">>
IMPROVE_PROMPTS == {NoneS, <<>>, PROMPT_SPACE, PROMPT_BLANK_LINES, PROMPT_FIX, PROMPT_PADDED}

IMPROVE_CONFIGS ==
    {Cfg("1", NAME_GPT, URL_OPENAI, KEY_A),
     Cfg("1", NAME_ROUTED, URL_OTHER, MODEL_ID),
     Cfg("1", NAME_DEEPSEEK, URL_DEEPSEEK, KEY_B)}

REPLY_PLAIN == <<"B","e","t","t","e","r">>
REPLY_BLANK == <<" ","\n">>
REPLY_FENCED == <<"'","'","'","\n","B","e","t","t","e","r","\n","'","'","'">>
REPLY_FENCED_LANG == <<"'","'","'","p","r","o","m","p","t","\n","B","e","t","t","e","r","\n","'","'","'","\n">>
REPLY_FENCE_ONLY == <<"'","'","'","\n","'","'","'">>
REPLY_PREFIX == <<"I","m","p","r","o","v","e","d"," ","p","r","o","m","p","t",":"," ","B","e","t","t","e","r">>
REPLY_PREFIX_ONLY == <<"I","m","p","r","o","v","e","d"," ","v","e","r","s","i","o","n",":","\n">>
REPLY_TWO_PREFIXES == <<"i","m","p","r","o","v","e","d"," ","v","e","r","s","i","o","n",":"," ","i","m","p","r","o","v","e","d"," ","p","r","o","m","p","t",":"," ","B","e","t","t","e","r">>
REPLY_HERE == <<"H","e","r","e"," ","i","s"," ","t","h","e"," ","i","m","p","r","o","v","e","d"," ","v","e","r","s","i","o","n",":","\n","'","'","'","t","e","x","t","\n","B","e","t","t","e","r","\n","'","'","'","\n">>
REPLY_INLINE_FENCE == <<"U","s","e"," ","'","'","'"," ","h","e","r","e">>
REPLY_RU_PREFIX == <<"U","l","u","c","h","s","h","e","n","n","y","j"," ","p","r","o","m","t",":"," ","B","e","t","t","e","r">>
REPLY_TEXTS ==
    {<<>>, REPLY_PLAIN, REPLY_BLANK, REPLY_FENCED, REPLY_FENCED_LANG, REPLY_FENCE_ONLY,
     REPLY_PREFIX, REPLY_PREFIX_ONLY, REPLY_TWO_PREFIXES, REPLY_HERE, REPLY_INLINE_FENCE,
     REPLY_RU_PREFIX}

IMPROVE_HTTP ==
    {PostRaised(c) : c \in {"Timeout", "ConnectionError"}}
    \cup {Reply(200, Completion(PyText(t)), "ValueError") : t \in REPLY_TEXTS}
    \cup {Reply(200, Completion(c), "ValueError") :
            c \in {PyNone, PyInt("5"), EmptyList, List1(PyText(REPLY_PLAIN)),
                   Dict1("text", PyText(REPLY_PLAIN))}}
    \cup {Reply(200, b, "ValueError") : b \in {EmptyDict, Dict1("choices", EmptyList)}}
    \cup {Reply(200, NotJson, "JSONDecodeError")}
    \cup {Reply(st, Dict1("error", Dict1("message", PyStr("quota exceeded"))), "ValueError") :
            st \in {401, 429, 500}}

InitImprove ==
    /\ DispatchIdle
    /\ CallIdle
    /\ EnvIdle
    /\ LogIdle
    /\ ParseIdle
    /\ DbIdle
    /\ WindowIdle
    /\ i_prompt \in IMPROVE_PROMPTS
    /\ i_cfg \in IMPROVE_CONFIGS
    /\ i_env = ENV_ALL
    /\ i_pc = "start"
    /\ i_resolved = FALSE
    /\ i_client = NoClient
    /\ i_posts = 0
    /\ i_sent = NoPrompt
    /\ i_http = NoHttp
    /\ i_call = NoCall
    /\ i_parsed = FALSE
    /\ i_out = Improved(PyNone, PyNone)

\* improve_prompt up to the blocking requests.post: lines 101-106 and, in
\* send_prompt_to_model, create_client; a prompt refused at line 101 or a
\* missing client ends the call
ImproveStart ==
    /\ i_pc = "start"
    /\ \E g \in {generate_improvement_prompt(i_prompt)} :
          IF g.exc # ""
          THEN /\ i_out' = improve_prompt_except(g.exc, g.msg)
               /\ i_pc' = "done"
               /\ UNCHANGED <<i_resolved, i_client, i_posts, i_sent, i_call, i_parsed>>
          ELSE \E client \in {create_client(i_cfg, i_env)} :
               /\ i_resolved' = TRUE
               /\ i_client' = client
               /\ IF client = NoClient
                  THEN /\ \E r \in {send_prompt_to_model(i_cfg, client, NoHttp)} :
                            /\ i_call' = r
                            /\ i_parsed' = improve_prompt_parses(r)
                            /\ i_out' = improve_prompt_result(r)
                       /\ i_pc' = "done"
                       /\ UNCHANGED <<i_posts, i_sent>>
                  ELSE /\ i_pc' = "inflight"
                       /\ i_posts' = i_posts + 1
                       /\ i_sent' = g.val
                       /\ UNCHANGED <<i_call, i_parsed, i_out>>
    /\ UNCHANGED <<i_prompt, i_cfg, i_env, i_http>>
    /\ UNCHANGED notImproveVars

\* requests.post ends with h; the rest of send_prompt_to_model and of
\* improve_prompt runs
ImproveReply(h) ==
    /\ i_pc = "inflight"
    /\ i_http' = h
    /\ \E r \in {send_prompt_to_model(i_cfg, i_client, h)} :
          /\ i_call' = r
          /\ i_parsed' = improve_prompt_parses(r)
          /\ i_out' = improve_prompt_result(r)
    /\ i_pc' = "done"
    /\ UNCHANGED <<i_prompt, i_cfg, i_env, i_resolved, i_client, i_posts, i_sent>>
    /\ UNCHANGED notImproveVars

NextImprove ==
    \/ ImproveStart
    \/ \E h \in IMPROVE_HTTP : ImproveReply(h)

SpecImprove == InitImprove /\ [][NextImprove]_vars

\* The prompt is a str of whitespace characters alone (or of none)
WhitespaceOnly(p) == p # NoneS /\ \A k \in 1..Len(p) : p[k] \in Whitespace

\* C19: improve_prompt called with an empty or whitespace-only original
\* prompt fails with the empty-original-prompt error before any client is
\* resolved and without any HTTP call.
C19_EmptyOriginalFailsFirst ==
    (i_pc \notin {"idle", "start"} /\ WhitespaceOnly(i_prompt)) =>
        /\ i_pc = "done"
        /\ i_out = Improved(PyNone, PyStr("The original prompt cannot be empty"))
        /\ ~i_resolved
        /\ i_client = NoClient
        /\ i_posts = 0

\* C19's case: a prompt of blanks, tabs and newlines, with a config that
\* would have resolved to a client.
C19_Witness ==
    /\ i_pc = "done"
    /\ i_prompt = PROMPT_BLANK_LINES
    /\ i_cfg = Cfg("1", NAME_GPT, URL_OPENAI, KEY_A)
    /\ i_out.error = PyStr("The original prompt cannot be empty")
    /\ i_posts = 0

C21_ErrorPropagatedUnchanged ==
    (i_pc = "done" /\ i_call.exc = "" /\ Truthy(i_call.error)) =>
        /\ i_out.error = i_call.error
        /\ i_out.improved_prompt = PyNone
        /\ ~i_parsed

\* C21's case: the POST was answered with status 429 and the call returned
\* the friendly text of that status.
C21_Witness ==
    /\ i_pc = "done"
    /\ i_posts = 1
    /\ i_http.kind = "reply"
    /\ i_http.status = 429
    /\ Truthy(i_call.error)
    /\ i_out = Improved(PyNone, i_call.error)

\* C26: the gateway classification of create_client and the one of
\* send_prompt_to_model agree: a caller-supplied model identifier is passed
\* to the client if and only if the client built is the gateway adapter; so
\* the gateway adapter's built-in default model is never sent, and no other
\* adapter receives api_id as its model identifier.
C26_ClassificationsAgree ==
    call_posts > 0 =>
        /\ (call_req.model_name # NoneS) <=> (call_client.cls = "OpenRouterClient")
        /\ call_client.cls = "OpenRouterClient" =>
              /\ call_req.model_name = call_cfg.api_id
              /\ ~Falsy(call_req.model_name)
              /\ call_req.json.model = call_cfg.api_id
        /\ call_client.cls # "OpenRouterClient" =>
              call_req.json.model = DefaultModel(call_client.cls)

\* C26's case: a config that is gateway by its name while its URL carries
\* the openai marker: the gateway adapter was built and was given api_id.
C26_Witness ==
    /\ call_posts > 0
    /\ call_cfg = Cfg("1", NAME_ROUTED, URL_OPENAI, MODEL_ID)
    /\ call_client.cls = "OpenRouterClient"
    /\ call_req.model_name = MODEL_ID
    /\ call_req.json.model = MODEL_ID

MODEL_NOT_FOUND == PyStr("Model not found. Check the model name in the settings")
RESOURCE_NOT_FOUND == PyStr("Resource not found. Check the API URL")

Is404 == call_pc = "returned" /\ call_http.kind = "reply" /\ call_http.status = 404

\* C27: on an HTTP 404 reply the error text has the gateway's
\* 'model not found' wording if and only if the client handling the call is
\* the gateway adapter; every other client gets the 'resource not found'
\* wording.
C27_WordingFollowsAdapter ==
    Is404 =>
        /\ (call_out.out.error = MODEL_NOT_FOUND) <=> (call_client.cls = "OpenRouterClient")
        /\ call_client.cls # "OpenRouterClient" => call_out.out.error = RESOURCE_NOT_FOUND

-----------------------------------------------------------------------------
(* SpecSettings: set_setting and get_setting calls on the settings table *)

MaxSets == 3
SETTING_VALUES == {"dark", "14", "", NULL}
SETTING_DEFAULTS == {"light", NULL}

NotDb ==
    /\ DispatchIdle
    /\ CallIdle
    /\ EnvIdle
    /\ LogIdle
    /\ ImproveIdle
    /\ ParseIdle
    /\ WindowIdle

InitSettings ==
    /\ NotDb
    /\ DbIdle

SetSetting(k, v) ==
    /\ db_ops < MaxSets
    /\ \E r \in {set_setting(store, k, v)} :
          /\ store' = r.db
          /\ db_ret' = Call("set_setting", <<k, v>>, r)
    /\ db_ops' = db_ops + 1
    /\ s_last' = [s_last EXCEPT ![k] = v]
    /\ UNCHANGED foreign_keys
    /\ UNCHANGED notDbVars

GetSetting(k, default) ==
    /\ db_ret' = Call("get_setting", <<k, default>>, Done(store, get_setting(store, k, default)))
    /\ UNCHANGED <<store, foreign_keys, db_ops, s_last>>
    /\ UNCHANGED notDbVars

NextSettings ==
    \/ \E k \in SETTING_KEYS, v \in SETTING_VALUES : SetSetting(k, v)
    \/ \E k \in SETTING_KEYS, default \in SETTING_DEFAULTS : GetSetting(k, default)

SpecSettings == InitSettings /\ [][NextSettings]_vars

\* C25: after any sequence of set_setting calls, get_setting(k) returns the
\* value given to the most recent set_setting(k, v), and the supplied default
\* when k was never set; the settings table holds at most one row per key.
C25_LastValueWins ==
    /\ \A k \in SETTING_KEYS : Cardinality({r \in store.settings : r.key = k}) <= 1
    /\ db_ret.op = "get_setting" =>
          db_ret.val = IF s_last[db_ret.args[1]] = Unset THEN db_ret.args[2]
                       ELSE s_last[db_ret.args[1]]

\* C25's case: a key set twice is read back with the second value, from the
\* one row that replaced the first.
C25_Witness ==
    /\ db_ret.op = "get_setting"
    /\ db_ret.args = <<"theme", "light">>
    /\ db_ret.val = "14"
    /\ store.settings = {[id |-> 2, key |-> "theme", value |-> "14"]}

-----------------------------------------------------------------------------
(* SpecModels: models.create_model and models.update_model calls *)

MaxModelOps == 3
MODEL_NAMES == {<<"G","P","T">>, <<"L","l","a","m","a">>, <<>>, <<" "," ">>, NoneS}
MODEL_URLS == {<<"h","t","t","p","s",":","/","/","a",".","i","o","/","v","1">>, <<"h","t","t","p",":","/","/","b",".","i","o">>, <<"f","t","p",":","/","/","c",".","i","o">>, <<"a",".","i","o">>, <<>>, <<" ">>}
MODEL_API_IDS == {<<"K","E","Y","_","A">>, <<>>, <<"\t">>}
MODEL_IDS == 1..2

\* The keyword arguments of an update_model call
KWARGS ==
    {[f \in {"name"} |-> n] : n \in MODEL_NAMES}
    \cup {[f \in {"api_url"} |-> u] : u \in MODEL_URLS}
    \cup {[f \in {"api_id"} |-> a] : a \in MODEL_API_IDS}
    \cup {[f \in {"is_active"} |-> b] : b \in {0, 1}}
    \cup {[f \in {"name", "api_url"} |-> IF f = "name" THEN n ELSE u] :
            n \in {<<"L","l","a","m","a">>, <<>>}, u \in {<<"h","t","t","p",":","/","/","b",".","i","o">>, <<"f","t","p",":","/","/","c",".","i","o">>}}
    \cup {<<>>}

InitModels ==
    /\ NotDb
    /\ DbIdle

CreateModel(name, api_url, api_id) ==
    /\ db_ops < MaxModelOps
    /\ \E r \in {create_model(store, name, api_url, api_id, 1)} :
          /\ store' = r.db
          /\ db_ret' = Call("create_model", <<name, api_url, api_id>>, r)
    /\ db_ops' = db_ops + 1
    /\ UNCHANGED <<foreign_keys, s_last>>
    /\ UNCHANGED notDbVars

UpdateModel(model_id, kwargs) ==
    /\ db_ops < MaxModelOps
    /\ \E r \in {update_model(store, model_id, kwargs)} :
          /\ store' = r.db
          /\ db_ret' = Call("update_model", <<model_id, kwargs>>, r)
    /\ db_ops' = db_ops + 1
    /\ UNCHANGED <<foreign_keys, s_last>>
    /\ UNCHANGED notDbVars

NextModels ==
    \/ \E n \in MODEL_NAMES, u \in MODEL_URLS, a \in MODEL_API_IDS : CreateModel(n, u, a)
    \/ \E id \in MODEL_IDS, kwargs \in KWARGS : UpdateModel(id, kwargs)

SpecModels == InitModels /\ [][NextModels]_vars

\* s holds a character that is not whitespace
NonBlank(s) == s # NoneS /\ \E k \in 1..Len(s) : s[k] \notin Whitespace

\* C29: after any sequence of models.create_model and models.update_model
\* calls, each succeeding or raising, every stored model has a non-blank
\* name, an API URL starting with http:// or https://, and a non-blank
\* api_id: an update that would break this is rejected.
C29_StoredModelsValid ==
    \A m \in store.models :
        /\ NonBlank(m.name)
        /\ NonBlank(m.api_id)
        /\ m.api_url # NoneS
        /\ \/ StartsAt(m.api_url, 1, HTTP_PREFIX)
           \/ StartsAt(m.api_url, 1, HTTPS_PREFIX)

-----------------------------------------------------------------------------
(* SpecStore: prompts, models and results created, saved and deleted *)

MaxStoreOps == 4
PROMPT_IDS == 1..2
RESULT_IDS == 1..2
STORE_MODELS == <<<<"G","P","T">>, <<"L","l","a","m","a">>>>

Result(prompt_id, model_id) ==
    [prompt_id |-> prompt_id, model_id |-> model_id, response_text |-> "answer"]
\* The lists handed to save_results
RESULT_LISTS ==
    {<<Result(p, m)>> : p \in PROMPT_IDS, m \in MODEL_IDS}
    \cup {<<Result(1, 1), Result(p, m)>> : p \in PROMPT_IDS, m \in MODEL_IDS}
    \cup {<<>>}

\* PRAGMA foreign_keys is never set (get_db_connection, lines 14-18): the
\* connections have the default the SQLite library was built with
InitStore ==
    /\ NotDb
    /\ store = EmptyStore
    /\ foreign_keys \in BOOLEAN
    /\ db_ops = 0
    /\ db_ret = NoDbCall
    /\ s_last = [k \in SETTING_KEYS |-> Unset]

StoreCall(op, args, r) ==
    /\ db_ops < MaxStoreOps
    /\ store' = r.db
    /\ db_ret' = Call(op, args, r)
    /\ db_ops' = db_ops + 1
    /\ UNCHANGED <<foreign_keys, s_last>>
    /\ UNCHANGED notDbVars

CreatePrompt ==
    \E r \in {create_prompt(store, NAME_GPT, NoneS)} : StoreCall("create_prompt", <<NAME_GPT>>, r)

DeletePrompt(prompt_id) ==
    \E r \in {delete_prompt(store, foreign_keys, prompt_id)} :
        StoreCall("delete_prompt", <<prompt_id>>, r)

CreateModelRow(k) ==
    \E r \in {db_create_model(store, STORE_MODELS[k], <<"h","t","t","p","s",":","/","/","a",".","i","o","/","v","1">>, <<"K","E","Y","_","A">>, 1)} :
        StoreCall("db.create_model", <<k>>, r)

DeleteModel(model_id) ==
    \E r \in {delete_model(store, foreign_keys, model_id)} :
        StoreCall("delete_model", <<model_id>>, r)

SaveResults(results_list) ==
    \E r \in {save_results(store, foreign_keys, results_list)} :
        StoreCall("save_results", results_list, r)

DeleteResult(result_id) ==
    \E r \in {delete_result(store, result_id)} : StoreCall("delete_result", <<result_id>>, r)

NextStore ==
    \/ CreatePrompt
    \/ \E id \in PROMPT_IDS : DeletePrompt(id)
    \/ \E k \in 1..Len(STORE_MODELS) : CreateModelRow(k)
    \/ \E id \in MODEL_IDS : DeleteModel(id)
    \/ \E l \in RESULT_LISTS : SaveResults(l)
    \/ \E id \in RESULT_IDS : DeleteResult(id)

SpecStore == InitStore /\ [][NextStore]_vars

\* C30: after any sequence of create, save and delete operations every
\* result row references an existing prompt and an existing model: deleting
\* a prompt removes its results, and a model that still has results is not
\* deleted.
C30_ResultsReferenceExistingRows ==
    \A r \in store.results :
        /\ \E p \in store.prompts : p.id = r.prompt_id
        /\ \E m \in store.models : m.id = r.model_id

-----------------------------------------------------------------------------
(* SpecWindow: MainWindow sends a prompt, receives the results and saves the
   selected ones *)

MaxSends == 2
PROMPT_TEXTS == {<<"H","i"," ">>, <<" ">>, <<>>}
TAGS_TEXT == <<>>

\* The code point order of the letters, as far as names are compared
Ord(c) ==
    LET letters == UpperLetters \o LowerLetters IN
    IF \E k \in 1..Len(letters) : letters[k] = c
    THEN CHOOSE k \in 1..Len(letters) : letters[k] = c
    ELSE 0

\* a < b under the BINARY collation
RECURSIVE Before(_, _)
Before(a, b) ==
    IF a = <<>> THEN b # <<>>
    ELSE IF b = <<>> THEN FALSE
    ELSE IF a[1] = b[1] THEN Before(Tail(a), Tail(b))
    ELSE Ord(a[1]) < Ord(b[1])

\* db.get_active_models (lines 226-233): WHERE is_active = 1 ORDER BY name
get_active_models(d) ==
    LET rows == {r \in d.models : r.is_active = 1} IN
    CHOOSE l \in [1..Cardinality(rows) -> rows] :
        \A i, j \in 1..Cardinality(rows) : i < j => Before(l[i].name, l[j].name)

\* A database with two active models and an inactive one
WINDOW_STORE ==
    LET a == db_create_model(EmptyStore, <<"L","l","a","m","a">>, <<"h","t","t","p","s",":","/","/","a",".","i","o","/","v","1">>, <<"K","E","Y","_","A">>, 1).db
        b == db_create_model(a, <<"G","P","T">>, <<"h","t","t","p","s",":","/","/","a",".","i","o","/","v","1">>, <<"K","E","Y","_","B">>, 1).db
    IN  db_create_model(b, <<"O","l","d">>, <<"h","t","t","p","s",":","/","/","a",".","i","o","/","v","1">>, <<"K","E","Y","_","E">>, 0).db

\* What one model's request ends with: a text, an empty text, or an error
OUTCOMES ==
    {[response |-> "answer", error |-> NULL],
     [response |-> "", error |-> NULL],
     [response |-> NULL, error |-> "timeout"]}

\* network.send_prompt_to_models_async: one result per model, in the order
\* the requests complete
THREAD_RESULTS(list) ==
    {l \in [1..Len(list) -> {[model_id |-> m.id, model_name |-> m.name,
                              response |-> o.response, error |-> o.error] :
                                m \in {list[k] : k \in 1..Len(list)}, o \in OUTCOMES}] :
        \A i, j \in 1..Len(list) : i # j => l[i].model_id # l[j].model_id}

InitWindow ==
    /\ NotDb
    /\ store \in {EmptyStore, WINDOW_STORE}
    /\ foreign_keys \in BOOLEAN
    /\ db_ops = 0
    /\ db_ret = NoDbCall
    /\ s_last = [k \in SETTING_KEYS |-> Unset]

\* clear_results (lines 1065-1069)
clear_results ==
    /\ temp_results' = <<>>
    /\ checked' = <<>>                       \* results_table.setRowCount(0)
    /\ current_prompt_id' = 0

\* send_request (lines 828-858); the send button is disabled while the
\* thread runs (line 854)
SendRequest(text) ==
    /\ request_thread.state # "running"
    /\ db_ops < MaxSends
    /\ LET prompt_text == Strip(text)
           active_models == get_active_models(store)
       IN  IF prompt_text = <<>>
           THEN /\ w_msg' = "Enter the prompt"                                              \* 832
                /\ UNCHANGED <<store, db_ops, db_ret, current_prompt_id, temp_results,
                               checked, request_thread, dispatched>>
           ELSE IF Len(active_models) = 0
           THEN /\ w_msg' = "No active models"                                              \* 838
                /\ UNCHANGED <<store, db_ops, db_ret, current_prompt_id, temp_results,
                               checked, request_thread, dispatched>>
           ELSE \E r \in {IF current_prompt_id = 0                                          \* 842
                          THEN create_prompt(store, prompt_text, Or(Strip(TAGS_TEXT), NoneS))
                          ELSE Done(store, current_prompt_id)} :
                   /\ store' = r.db
                   /\ db_ret' = Call("create_prompt", <<prompt_text>>, r)
                   /\ dispatched' = r.val
                   /\ clear_results                                                         \* 848
                   /\ request_thread' = [state |-> "running", prompt |-> prompt_text,
                                         models_list |-> active_models]
                   /\ db_ops' = db_ops + 1
                   /\ UNCHANGED w_msg
    /\ UNCHANGED <<foreign_keys, s_last, w_saved>>
    /\ UNCHANGED notWindowVars

\* RequestThread.run emits finished (lines 39-42) and on_requests_finished
\* runs (lines 860-867); update_results_table checks every row's checkbox
RequestsFinished(thread_results) ==
    /\ request_thread.state = "running"
    /\ request_thread' = [request_thread EXCEPT !.state = "finished"]
    /\ temp_results' = thread_results
    /\ checked' = [row \in 1..Len(thread_results) |-> TRUE]
    /\ UNCHANGED <<current_prompt_id, dispatched, w_msg, w_saved>>
    /\ UNCHANGED dbVars
    /\ UNCHANGED notWindowVars

\* The user clicks the checkbox of a row
ToggleCheckbox(row) ==
    /\ row \in 1..Len(checked)
    /\ checked' = [checked EXCEPT ![row] = ~@]
    /\ UNCHANGED <<current_prompt_id, temp_results, request_thread, dispatched, w_msg, w_saved>>
    /\ UNCHANGED dbVars
    /\ UNCHANGED notWindowVars

\* The rows save_selected_results is to save (lines 1043-1055): checked, with
\* a model id and a response
RECURSIVE SelectedRows(_)
SelectedRows(row) ==
    IF row > Len(checked) THEN <<>>
    ELSE (IF /\ checked[row]
             /\ temp_results[row].model_id # 0
             /\ temp_results[row].response \notin {NULL, ""}
          THEN <<[model_id |-> temp_results[row].model_id,
                  response_text |-> temp_results[row].response]>>
          ELSE <<>>) \o SelectedRows(row + 1)

\* save_selected_results (lines 1036-1063)
SaveSelectedResults ==
    /\ w_saved' = [called |-> TRUE, selected |-> SelectedRows(1),
                   dispatched |-> dispatched, current_prompt_id |-> current_prompt_id]
    /\ LET selected_results ==
               [k \in 1..Len(SelectedRows(1)) |->
                   [prompt_id |-> current_prompt_id,
                    model_id |-> SelectedRows(1)[k].model_id,
                    response_text |-> SelectedRows(1)[k].response_text]]
       IN  IF current_prompt_id = 0
           THEN /\ w_msg' = "No active prompt"                                              \* 1039
                /\ UNCHANGED <<store, db_ret, current_prompt_id, temp_results, checked>>
           ELSE IF Len(selected_results) = 0
           THEN /\ w_msg' = "No result selected"                                            \* 1058
                /\ UNCHANGED <<store, db_ret, current_prompt_id, temp_results, checked>>
           ELSE \E r \in {save_results(store, foreign_keys, selected_results)} :
                   /\ store' = r.db
                   /\ db_ret' = Call("save_results", selected_results, r)
                   /\ IF r.exc # ""
                      THEN /\ w_msg' = r.exc
                           /\ UNCHANGED <<current_prompt_id, temp_results, checked>>
                      ELSE /\ w_msg' = "Saved results"                                      \* 1061
                           /\ clear_results                                                 \* 1063
    /\ UNCHANGED <<foreign_keys, db_ops, s_last, request_thread, dispatched>>
    /\ UNCHANGED notWindowVars

\* The clear button (line 594)
ClearResults ==
    /\ clear_results
    /\ UNCHANGED <<request_thread, dispatched, w_msg, w_saved>>
    /\ UNCHANGED dbVars
    /\ UNCHANGED notWindowVars

NextWindow ==
    \/ \E text \in PROMPT_TEXTS : SendRequest(text)
    \/ \E l \in THREAD_RESULTS(request_thread.models_list) : RequestsFinished(l)
    \/ \E row \in 1..2 : ToggleCheckbox(row)
    \/ SaveSelectedResults
    \/ ClearResults

SpecWindow == InitWindow /\ [][NextWindow]_vars

\* C24: when save_selected_results is called after a dispatch has delivered
\* its outcomes and some selected outcome has a response, the current prompt
\* id is still the id of the dispatched prompt, and every selected outcome
\* that has a response is stored as a result row linked to that prompt.
C24_SelectedResultsSaved ==
    (w_saved.called /\ w_saved.selected # <<>>) =>
        /\ w_saved.current_prompt_id # 0
        /\ w_saved.current_prompt_id = w_saved.dispatched
        /\ \A k \in 1..Len(w_saved.selected) :
              \E r \in store.results :
                  /\ r.prompt_id = w_saved.dispatched
                  /\ r.model_id = w_saved.selected[k].model_id
                  /\ r.response_text = w_saved.selected[k].response_text

-----------------------------------------------------------------------------
(* SpecParse: parse_improved_prompt applied to a reply, and to its own result *)

UpperChar(c) ==
    IF \E i \in 1..Len(LowerLetters) : LowerLetters[i] = c
    THEN UpperLetters[CHOOSE i \in 1..Len(LowerLetters) : LowerLetters[i] = c]
    ELSE c
Upper(s) == [i \in 1..Len(s) |-> UpperChar(s[i])]
Capitalized(s) == <<UpperChar(Head(s))>> \o Tail(s)

\* Lead-in phrases of lines 63-68 as a model may write them
PHRASES ==
    UNION {{prefixes[k].lit, Upper(prefixes[k].lit), Capitalized(prefixes[k].lit)} :
             k \in {1, 4, 5}}
\* What separates a lead-in phrase from what follows it
SEPARATORS == {<<" ">>, <<"\n">>}
\* The fence's info string
TAGS == {<<>>, LANG_PROMPT, LANG_TEXT, LANG_MARKDOWN}

BODY_ONE == <<"B","o","d","y">>
BODY_LINES == <<" ","D","o"," ","t","h","i","s",".","\n","T","h","e","n"," ","t","h","a","t","."," ">>
BODIES == {BODY_ONE, BODY_LINES}

\* body wrapped in a fenced code block
Fenced(tag, body) == FENCE \o tag \o <<"\n">> \o body \o <<"\n">> \o FENCE
\* text preceded by a lead-in phrase
Prefixed(phrase, sep, text) == phrase \o sep \o text

ParseInput(kind, body, reply) == [kind |-> kind, body |-> body, reply |-> reply]

\* Replies that are a body in a fence, behind a lead-in phrase, or both, in
\* either order
WRAPPED ==
    {ParseInput("fenced", b, Fenced(t, b)) : t \in TAGS, b \in BODIES}
    \cup {ParseInput("prefixed", b, Prefixed(ph, sep, b)) :
            ph \in PHRASES, sep \in SEPARATORS, b \in BODIES}
    \cup {ParseInput("prefix_fence", b, Prefixed(ph, sep, Fenced(t, b))) :
            ph \in PHRASES, sep \in SEPARATORS, t \in TAGS, b \in BODIES}
    \cup {ParseInput("fence_prefix", b, Fenced(t, Prefixed(ph, sep, b))) :
            ph \in PHRASES, sep \in SEPARATORS, t \in TAGS, b \in BODIES}
WrappedKinds == {"fenced", "prefixed", "prefix_fence", "fence_prefix"}

\* Lines a reply may hold between its first and its last line
INTERIOR_LINES ==
    {<<"a","n","d"," ","t","h","e","n">>, FENCE, FENCE \o LANG_TEXT, <<"I","m","p","r","o","v","e","d"," ","p","r","o","m","p","t",":"," ","b","e"," ","b","r","i","e","f">>,
     <<"i","m","p","r","o","v","e","d"," ","v","e","r","s","i","o","n",":"," ","t","w","o">>, <<" "," ","i","n","d","e","n","t","e","d">>}
\* Replies of three lines: the interior line stands between two plain lines,
\* bare or inside a fence
INTERIOR ==
    {ParseInput("interior", <<"S","t","e","p"," ","o","n","e">> \o <<"\n">> \o l \o <<"\n">> \o <<"S","t","e","p"," ","t","w","o">>,
                <<"S","t","e","p"," ","o","n","e">> \o <<"\n">> \o l \o <<"\n">> \o <<"S","t","e","p"," ","t","w","o">>) : l \in INTERIOR_LINES}
    \cup {ParseInput("interior_fenced", <<"S","t","e","p"," ","o","n","e">> \o <<"\n">> \o l \o <<"\n">> \o <<"S","t","e","p"," ","t","w","o">>,
                     Fenced(<<>>, <<"S","t","e","p"," ","o","n","e">> \o <<"\n">> \o l \o <<"\n">> \o <<"S","t","e","p"," ","t","w","o">>)) :
            l \in INTERIOR_LINES}
InteriorKinds == {"interior", "interior_fenced"}

\* Replies with two lead-in phrases, one behind the other
STACKED ==
    {ParseInput("stacked", BODY_ONE, Prefixed(prefixes[j].lit, <<" ">>, Prefixed(prefixes[k].lit, <<" ">>, BODY_ONE))) :
        j \in {4, 5, 6}, k \in {4, 5, 6}}

\* Replies with nothing to remove, and the empty reply
PLAIN == {ParseInput("plain", b, b) : b \in BODIES \cup {<<>>, <<" ","\n">>}}

PARSE_INPUTS == WRAPPED \cup INTERIOR \cup STACKED \cup PLAIN

InitParse ==
    /\ DispatchIdle
    /\ CallIdle
    /\ EnvIdle
    /\ LogIdle
    /\ ImproveIdle
    /\ DbIdle
    /\ WindowIdle
    /\ \E in \in PARSE_INPUTS :
          /\ p_form = [kind |-> in.kind, body |-> in.body]
          /\ p_reply = in.reply
    /\ p_pc = "start"
    /\ p_out = <<>>
    /\ p_again = <<>>

\* parse_improved_prompt(response)
Parse ==
    /\ p_pc = "start"
    /\ p_out' = parse_improved_prompt(p_reply)
    /\ p_pc' = "parsed"
    /\ UNCHANGED <<p_form, p_reply, p_again>>
    /\ UNCHANGED notParseVars

\* parse_improved_prompt applied to what it returned
ParseAgain ==
    /\ p_pc = "parsed"
    /\ p_again' = parse_improved_prompt(p_out)
    /\ p_pc' = "reparsed"
    /\ UNCHANGED <<p_form, p_reply, p_out>>
    /\ UNCHANGED notParseVars

NextParse ==
    \/ Parse
    \/ ParseAgain

SpecParse == InitParse /\ [][NextParse]_vars

\* C22: for every reply that is a body wrapped in a fenced code block and/or
\* preceded by a known lead-in phrase in any letter case, fence and phrase in
\* either order, parse_improved_prompt returns the body with fence markers
\* and phrase removed and the surrounding whitespace trimmed.
C22_WrappersRemoved ==
    (p_pc \in {"parsed", "reparsed"} /\ p_form.kind \in WrappedKinds) =>
        p_out = Strip(p_form.body)

\* C23: parse_improved_prompt removes a fence marker only at the very start
\* and very end of the reply and a lead-in phrase only at the very start;
\* every interior line, also one that begins with a fence marker or a
\* lead-in phrase, is returned unchanged.
C23_InteriorLinesKept ==
    (p_pc \in {"parsed", "reparsed"} /\ p_form.kind \in InteriorKinds) =>
        p_out = Strip(p_form.body)

\* C28: parse_improved_prompt is idempotent: applied to its own result it
\* returns that result, also when several lead-in phrases are stacked.
C28_Idempotent ==
    p_pc = "reparsed" => p_again = p_out

-----------------------------------------------------------------------------
(* Spec: one dispatch, send_prompt_to_models_async *)

\* ThreadPoolExecutor(max_workers=5)
max_workers == 5

\* Dispatches of up to max_workers + MaxExtra model configs are explored.
MaxExtra == 1
MaxModels == max_workers + MaxExtra

\* Config pools: one whose configs all resolve to a client under ENV_ALL,
\* one with configs that do not (unset and empty credential, no URL) and
\* one without a display name
POOL_VALID ==
    <<Cfg("0", NAME_GPT, URL_OPENAI, KEY_A),
      Cfg("0", NAME_ROUTED, URL_OTHER, MODEL_ID),
      Cfg("0", NAME_GROQ, URL_GROQ, KEY_A),
      Cfg("0", <<>>, URL_OPENROUTER, MODEL_ID),
      Cfg("0", NAME_GPT, URL_DEEPSEEK, KEY_A)>>
POOL_MIXED ==
    <<Cfg("0", NAME_GPT, URL_OPENAI, KEY_B),
      Cfg("0", NAME_GPT, URL_OPENAI, KEY_A),
      Without(Cfg("0", NAME_GPT, URL_OTHER, KEY_A), "name"),
      Cfg("0", NAME_ROUTED, URL_OPENROUTER, MODEL_ID),
      Cfg("0", NAME_GROQ, URL_GROQ, KEY_E),
      Cfg("0", NAME_GPT, <<>>, KEY_A),
      Cfg("0", NAME_GROQ, URL_OTHER, KEY_A)>>

\* What the servers answer: a completion, no answer within the timeout, an
\* error status, a reply without choices, a refused connection
HTTP_OK == Reply(200, Completion(PyStr("hello")), "ValueError")
HTTP_TIMEOUT == PostRaised("Timeout")
HTTP_401 == Reply(401, Dict1("error", Dict1("message", PyStr("bad key"))), "ValueError")
HTTP_NO_CHOICES == Reply(200, Dict1("choices", EmptyList), "ValueError")
HTTP_CONNECTION == PostRaised("ConnectionError")
ANSWERS_FAST_SLOW == <<HTTP_OK, HTTP_OK, HTTP_OK, HTTP_TIMEOUT, HTTP_TIMEOUT>>
ANSWERS_MIXED == <<HTTP_CONNECTION, HTTP_TIMEOUT, HTTP_401, HTTP_NO_CHOICES, HTTP_OK, HTTP_TIMEOUT>>

\* The i-th element of seq, cyclically
Cyclic(seq, i) == seq[((i - 1) % Len(seq)) + 1]

\* The first n configs of a pool, the i-th with id i
ModelsFrom(pool, n) == [i \in 1..n |-> [Cyclic(pool, i) EXCEPT !.id = ToString(i)]]

Pending == [state |-> "pending", exc |-> "", out |-> Outcome(NoId, <<>>, PyNone, PyNone)]

N == Len(models_list)
Tasks == 1..N
InFlight == {i \in Tasks : task_pc[i] = "inflight"}

Init ==
    /\ CallIdle
    /\ EnvIdle
    /\ LogIdle
    /\ ImproveIdle
    /\ ParseIdle
    /\ DbIdle
    /\ WindowIdle
    /\ \E n \in 0..MaxModels, pool \in {POOL_VALID, POOL_MIXED},
          answers \in {ANSWERS_FAST_SLOW, ANSWERS_MIXED} :
          /\ models_list = ModelsFrom(pool, n)
          /\ server = [i \in 1..n |-> Cyclic(answers, i)]
          /\ task_pc = [i \in 1..n |-> "new"]
          /\ task_client = [i \in 1..n |-> NoClient]
          /\ posts = [i \in 1..n |-> 0]
          /\ futures = [i \in 1..n |-> Pending]
    /\ env = ENV_ALL
    /\ main_pc = "running"
    /\ submitted = 0
    /\ queue = <<>>
    /\ collected = {}
    /\ results = <<>>

\* line 413: executor.submit(send_to_model, model) for the next model
Submit ==
    /\ main_pc = "running"
    /\ submitted < N
    /\ submitted' = submitted + 1
    /\ queue' = Append(queue, submitted + 1)
    /\ task_pc' = [task_pc EXCEPT ![submitted + 1] = "queued"]
    /\ UNCHANGED <<models_list, env, server, main_pc, task_client, posts, futures,
                   collected, results>>
    /\ UNCHANGED notDispatchVars

\* A pool with no worker limit
WorkerAlwaysFree == TRUE

\* A pool of one worker
WorkerFreeSerial == Cardinality(InFlight) < 1

\* line 412: the pool runs at most max_workers tasks at a time
WorkerFree == Cardinality(InFlight) < max_workers

\* A worker takes the oldest queued task and runs send_to_model up to the
\* blocking requests.post; with no client the task is over at once
Start ==
    /\ queue # <<>>
    /\ WorkerFree
    /\ \E i \in {Head(queue)} : \E client \in {create_client(models_list[i], env)} :
           /\ queue' = Tail(queue)
           /\ task_client' = [task_client EXCEPT ![i] = client]
           /\ IF client = NoClient
              THEN /\ futures' = [futures EXCEPT ![i] = send_to_model(models_list[i], client, NoHttp)]
                   /\ task_pc' = [task_pc EXCEPT ![i] = "done"]
                   /\ UNCHANGED posts
              ELSE /\ task_pc' = [task_pc EXCEPT ![i] = "inflight"]
                   /\ posts' = [posts EXCEPT ![i] = @ + 1]
                   /\ UNCHANGED futures
    /\ UNCHANGED <<models_list, env, server, main_pc, submitted, collected, results>>
    /\ UNCHANGED notDispatchVars

\* Finish, written so that a failed task cancels the tasks still queued
FinishCancelling(i) ==
    /\ task_pc[i] = "inflight"
    /\ LET f == send_to_model(models_list[i], task_client[i], server[i])
           cancel == IF f.out.error # PyNone THEN {j \in Tasks : task_pc[j] = "queued"} ELSE {}
       IN  /\ futures' = [j \in Tasks |->
                            IF j = i THEN f
                            ELSE IF j \in cancel
                            THEN [state |-> "cancelled", exc |-> "CancelledError", out |-> Pending.out]
                            ELSE futures[j]]
           /\ task_pc' = [j \in Tasks |-> IF j = i \/ j \in cancel THEN "done" ELSE task_pc[j]]
           /\ queue' = SelectSeq(queue, LAMBDA j : j \notin cancel)
    /\ UNCHANGED <<models_list, env, server, main_pc, submitted, task_client, posts,
                   collected, results>>
    /\ UNCHANGED notDispatchVars

\* Finish with a failed call sent again, up to three times
FinishRetrying(i) ==
    /\ task_pc[i] = "inflight"
    /\ \E f \in {send_to_model(models_list[i], task_client[i], server[i])} :
          IF f.out.error # PyNone /\ posts[i] < 3
          THEN /\ posts' = [posts EXCEPT ![i] = @ + 1]
               /\ UNCHANGED <<futures, task_pc>>
          ELSE /\ futures' = [futures EXCEPT ![i] = f]
               /\ task_pc' = [task_pc EXCEPT ![i] = "done"]
               /\ UNCHANGED posts
    /\ UNCHANGED <<models_list, env, server, main_pc, submitted, queue, task_client,
                   collected, results>>
    /\ UNCHANGED notDispatchVars

\* Finish for a POST sent without a timeout: a server that never answers
\* leaves the task in requests.post for ever
FinishNoTimeout(i) ==
    /\ task_pc[i] = "inflight"
    /\ server[i] # PostRaised("Timeout")
    /\ futures' = [futures EXCEPT ![i] = send_to_model(models_list[i], task_client[i], server[i])]
    /\ task_pc' = [task_pc EXCEPT ![i] = "done"]
    /\ UNCHANGED <<models_list, env, server, main_pc, submitted, queue, task_client, posts,
                   collected, results>>
    /\ UNCHANGED notDispatchVars

\* The POST of task i ends; the rest of send_to_model runs and the future
\* gets its result
Finish(i) ==
    /\ task_pc[i] = "inflight"
    /\ futures' = [futures EXCEPT ![i] = send_to_model(models_list[i], task_client[i], server[i])]
    /\ task_pc' = [task_pc EXCEPT ![i] = "done"]
    /\ UNCHANGED <<models_list, env, server, main_pc, submitted, queue, task_client, posts,
                   collected, results>>
    /\ UNCHANGED notDispatchVars

\* Collect, appending only the outcomes without an error
CollectSuccessesOnly(i) ==
    /\ main_pc = "running"
    /\ submitted = N
    /\ task_pc[i] = "done"
    /\ i \notin collected
    /\ collected' = collected \cup {i}
    /\ IF futures[i].state = "result"
       THEN /\ results' = IF futures[i].out.error = PyNone
                          THEN Append(results, futures[i].out) ELSE results
            /\ UNCHANGED main_pc
       ELSE /\ main_pc' = "raised"
            /\ UNCHANGED results
    /\ UNCHANGED <<models_list, env, server, submitted, queue, task_pc, task_client, posts,
                   futures>>
    /\ UNCHANGED notDispatchVars

\* lines 414-415: as_completed yields a finished future, in no fixed order;
\* future.result() is appended, or re-raises what the task raised
Collect(i) ==
    /\ main_pc = "running"
    /\ submitted = N
    /\ task_pc[i] = "done"
    /\ i \notin collected
    /\ collected' = collected \cup {i}
    /\ IF futures[i].state = "result"
       THEN /\ results' = Append(results, futures[i].out)
            /\ UNCHANGED main_pc
       ELSE /\ main_pc' = "raised"
            /\ UNCHANGED results
    /\ UNCHANGED <<models_list, env, server, submitted, queue, task_pc, task_client, posts,
                   futures>>
    /\ UNCHANGED notDispatchVars

\* line 417: every future was yielded; the with block ends and the list is
\* returned
Return ==
    /\ main_pc = "running"
    /\ submitted = N
    /\ collected = Tasks
    /\ main_pc' = "returned"
    /\ UNCHANGED <<models_list, env, server, submitted, queue, task_pc, task_client, posts,
                   futures, collected, results>>
    /\ UNCHANGED notDispatchVars

Next ==
    \/ Submit
    \/ Start
    \/ \E i \in Tasks : Finish(i)
    \/ \E i \in Tasks : Collect(i)
    \/ Return

Spec == Init /\ [][Next]_vars

\* The scheduling the dispatch relies on: the calling thread keeps running
\* (submit loop, as_completed loop, return), a free worker thread picks up
\* queued work, and every POST ends, with a reply or, by timeout=self.timeout
\* (line 132), with requests.exceptions.Timeout.  Each of these steps, once
\* possible, stays possible until it is taken, so together they give: while
\* some step is possible, a step is taken.
Fairness == WF_vars(Next)

SpecLive == Init /\ [][Next]_vars /\ Fairness

-----------------------------------------------------------------------------
(* Claims about one dispatch (Spec) *)

\* C1: the returned list has exactly N outcomes, exactly one per input
\* config, carrying that config's id and name, in some order.
C1_OneOutcomePerConfig ==
    main_pc = "returned" =>
        /\ Len(results) = N
        /\ \A i \in Tasks :
              Cardinality({k \in 1..Len(results) :
                             /\ results[k].model_id = models_list[i].id
                             /\ results[k].model_name = CfgGet(models_list[i], "name", Unknown)}) = 1

\* C1's case: a dispatch of more configs than workers has returned, one of
\* its outcomes an error, one a response.
C1_Witness ==
    /\ main_pc = "returned"
    /\ N > max_workers
    /\ Len(results) = N
    /\ \E k \in 1..Len(results) : results[k].error # PyNone
    /\ \E k \in 1..Len(results) : results[k].response # PyNone

\* The finished task i met a fault: it could build no client, or its POST
\* ended in anything but a completion
Faulted(i) ==
    \/ task_client[i] = NoClient
    \/ server[i] # HTTP_OK

\* C3: the dispatch never raises: whatever fault a task meets, its future
\* holds a returned outcome with an error string, never an exception.
C3_NeverRaises ==
    /\ main_pc # "raised"
    /\ \A i \in Tasks :
          /\ futures[i].state \in {"pending", "result"}
          /\ (task_pc[i] = "done" /\ Faulted(i)) =>
                /\ Tag(futures[i].out.error) = "str"
                /\ futures[i].out.response = PyNone

\* C3's case: the dispatch has returned with a configuration error, a
\* timeout, an error status and a malformed reply among its outcomes.
C3_Witness ==
    /\ main_pc = "returned"
    /\ \A text \in {"Could not create the API client",
                    "Request timed out. The server did not answer in time",
                    "Invalid API key. Check the key in the .env file",
                    "Unexpected error: list index out of range"} :
          \E k \in 1..Len(results) : results[k].error = PyStr(text)

\* C4: in every step of every interleaving, a future that gets its value
\* gets the outcome of send_to_model on the task's own config, the
\* environment and the task's own HTTP result, and a future that has its
\* value keeps it: no step of one task cancels a sibling or changes a
\* sibling's outcome.
C4_Isolation ==
    [][\A i \in Tasks :
          /\ futures[i] # Pending => futures'[i] = futures[i]
          /\ (futures[i] = Pending /\ futures'[i] # Pending) =>
                futures'[i] = send_to_model(models_list[i],
                                            create_client(models_list[i], env), server[i])]_vars

\* C4's case: a task has timed out, a sibling started after it has its
\* response, and a third is still queued.
C4_Witness ==
    \E i, j, k \in Tasks :
        /\ i < j
        /\ futures[i].out.error = PyStr("Request timed out. The server did not answer in time")
        /\ futures[j].out.response = PyStr("hello")
        /\ task_pc[k] = "queued"

\* C9: at most 5 HTTP calls are in flight, whatever the number of configs.
C9_AtMostFiveInFlight == Cardinality(InFlight) <= 5

\* C9's case: five calls in flight and a sixth task waiting in the queue.
C9_Witness == Cardinality(InFlight) = 5 /\ queue # <<>>

\* C10: with at most 5 configs no task waits for another one's call to
\* end: whenever a task is queued, a worker can start it.
C10_NoWaiting == (N <= 5 /\ queue # <<>>) => ENABLED Start

\* C10's case: of five configs three have their response while the two
\* slow ones are still in flight.
C10_Witness ==
    /\ N = 5
    /\ Cardinality({i \in Tasks : task_pc[i] = "done" /\ futures[i].out.response = PyStr("hello")}) = 3
    /\ Cardinality({i \in InFlight : server[i] = HTTP_TIMEOUT}) = 2

\* C10's other case: all five calls in flight at once.
C10_AllInFlight == N = 5 /\ InFlight = Tasks

\* C12: no retries: within one dispatch at most one HTTP POST is issued per
\* input config, whatever that POST ends with (error status, timeout,
\* connection failure, malformed reply).
C12_AtMostOnePost == \A i \in Tasks : posts[i] <= 1

\* Task i has ended with the error text
EndedWith(i, text) ==
    /\ task_pc[i] = "done"
    /\ futures[i].out.error = PyStr(text)

\* C12's case: the dispatch has returned; a call that met a refused
\* connection, one that timed out, one that got status 401 and one that got
\* a reply without choices have each issued one POST.
C12_Witness ==
    /\ main_pc = "returned"
    /\ \A text \in {"Connection error. Check the internet connection",
                    "Request timed out. The server did not answer in time",
                    "Invalid API key. Check the key in the .env file",
                    "Unexpected error: list index out of range"} :
          \E i \in Tasks : EndedWith(i, text) /\ posts[i] = 1

-----------------------------------------------------------------------------
(* Claims about one dispatch under fair scheduling (SpecLive) *)

\* Task i has run and left its outcome, and that outcome is in the list
Ran(i) ==
    /\ task_pc[i] = "done"
    /\ futures[i].state = "result"
    /\ \E k \in 1..Len(results) : results[k] = futures[i].out

\* The dispatch has returned, every config has run and produced its outcome,
\* and every call that timed out has an error and no response
ReturnedWithEveryOutcome ==
    /\ main_pc = "returned"
    /\ \A i \in Tasks :
          /\ Ran(i)
          /\ (task_client[i] # NoClient /\ server[i] = HTTP_TIMEOUT) =>
                /\ futures[i].out.error = PyStr("Request timed out. The server did not answer in time")
                /\ futures[i].out.response = PyNone

\* C11: if every HTTP call eventually replies or times out, every dispatch
\* eventually returns, with every submitted config (also those queued behind
\* the five workers) run and its outcome produced, a timed-out call having
\* produced an error and no response.
C11_EventuallyReturns == <>ReturnedWithEveryOutcome

\* C11's case: a dispatch of more configs than workers has returned, the
\* sixth config, which had to wait for a worker, having timed out.
C11_Witness ==
    /\ ReturnedWithEveryOutcome
    /\ N > max_workers
    /\ task_client[6] # NoClient
    /\ server[6] = HTTP_TIMEOUT
    /\ futures[6].out.response = PyNone

====
